---- MODULE Spec2Model ----
(***************************************************************************)
(* A model of the Hyperpure catalog scrapers (Arkapro1/Datascraper).       *)
(*                                                                         *)
(* The repository holds several near-duplicate scraper classes.  The model *)
(* keeps one group of variables per component and one specification per    *)
(* component; a specification leaves the other components' variables at    *)
(* their idle values.                                                      *)
(*                                                                         *)
(*   SpecFetch     safe_request (retry loop of the fetch layer)            *)
(*   SpecPrice     extract_price_info (price / discount normalization)     *)
(*   SpecPackaging packaging class chosen at the listing stage             *)
(*   SpecDetail    one call of the detail stage (enrichment of a product)  *)
(*   SpecFrontier  sequences of detail calls (scraped_urls)                *)
(*   SpecPerfect   the PERFECT scraper's extraction loop                   *)
(*   SpecRun       the comprehensive scraper's run: categories, details,   *)
(*                 save, operator interrupt                                *)
(*   SpecRunFair   the same run under the interpreter's scheduling         *)
(*   SpecSink      save_to_csv / save_perfect_csv                          *)
(*   SpecEntry     the price fields of an entry from listing to detail     *)
(*   SpecTags      the tag list of an entry                                *)
(*   SpecStamp     where scraped_timestamp is read                         *)
(*   SpecChain     a field filled by an ordered chain of strategies        *)
(*   SpecUnit      the unit size of an entry                               *)
(*   SpecQuote     a text field from the page to the written row           *)
(*   SpecPages     the listing pages of a run (enhanced and base scripts)  *)
(*   SpecPagesFair the same under the interpreter's scheduling             *)
(*   SpecLimit     main with --limit (detailed and PERFECT scripts)        *)
(***************************************************************************)
EXTENDS Integers, Sequences, FiniteSets, TLC

(***************************************************************************)
(* State.                                                                  *)
(***************************************************************************)
\* safe_request / get_page_selenium
VARIABLES
    variant,        \* which class's safe_request runs
    max_retries,    \* the max_retries argument
    attempt,        \* the loop variable of `for attempt in range(max_retries)`
    fpc,            \* position inside safe_request
    outcomes,       \* history: the outcome of every session.get issued so far
    sleeps,         \* history: the sleeps and attempts, in order
    fresult,        \* the value returned: [kind |-> "pending" | "None" | "content", content |-> k]
    escaped         \* the exception that left safe_request, or "none"

fetchVars == <<variant, max_retries, attempt, fpc, outcomes, sleeps, fresult, escaped>>

\* extract_price_info / extract_perfect_price_info
VARIABLES
    pvariant,       \* "text": extract_price_info(price_text); "perfect": extract_perfect_price_info
    price_text,     \* the argument
    ppc,            \* "call" before the call, "done" after it
    price           \* the returned (current_price, original_price, discount_pct)

priceVars == <<pvariant, price_text, ppc, price>>

\* extract_products_from_page: the packaging decision for one product link
VARIABLES
    name_keywords,  \* the keywords that occur in product_name.lower()
    category_name,  \* get_category_name_from_url(category_url)
    kpc,            \* "call" before the decision, "done" after it
    packaging_type, \* product.packaging_type
    packaging_by    \* history: which branch assigned it: "keyword", "category" or "none"

packagingVars == <<name_keywords, category_name, kpc, packaging_type, packaging_by>>

\* scrape_product_details / scrape_detailed_product_info
VARIABLES
    dvariant,       \* which class's detail stage runs
    scraped_urls,   \* self.scraped_urls
    listing,        \* history: the product as the last call received it
    product,        \* the product after the last call
    page,           \* history: the page the last call parsed, if it parsed one
    call_log        \* history: one entry per call (see ScrapeProductDetails)

detailVars == <<dvariant, scraped_urls, listing, product, page, call_log>>

\* scrape_all_perfect_products
VARIABLES
    product_urls,     \* the list get_all_product_urls returned
    next_url,         \* the position of the loop in product_urls, from 1
    perfect_products, \* self.products
    perfect_log       \* history: one entry per iteration (see ProcessProductUrl)

perfectVars == <<product_urls, next_url, perfect_products, perfect_log>>

\* scrape_all_products and main (comprehensive)
VARIABLES
    rpc,               \* position of the run: "category", "details", "returned",
                       \* "interrupted", "exited"
    category_idx,      \* position of the category loop in category_urls, from 1
    all_products,      \* the local list of scrape_all_products
    category_products, \* the local list of the current category
    detail_idx,        \* position of the detail loop in category_products, from 1
    products,          \* self.products
    run_scraped_urls,  \* self.scraped_urls
    normal_csv,        \* the file 'hyperpure_products_comprehensive_<timestamp>.csv'
    partial_csv,       \* the file 'hyperpure_products_comprehensive_partial_<timestamp>.csv'
    interrupted,       \* history: a KeyboardInterrupt arrived
    assembled,         \* history: all_products when it arrived
    fetch_log          \* history: the calls of safe_request, in order (see Fetched)

runVars == <<rpc, category_idx, all_products, category_products, detail_idx, products,
             run_scraped_urls, normal_csv, partial_csv, interrupted, assembled, fetch_log>>

\* save_to_csv and save_perfect_csv
VARIABLES
    sink_variant,   \* the script: "comprehensive" or "perfect"
    sink_products,  \* self.products
    files,          \* the file system: file name -> NoFile or the file's lines
    sink_log,       \* the logger's records, in order
    saves           \* history: one entry per call of the save method

sinkVars == <<sink_variant, sink_products, files, sink_log, saves>>

\* the price fields of one entry, from the listing stage to the detail stage
VARIABLES
    evariant,         \* the script: "comprehensive" or "enhanced"
    estage,           \* "draft", "selected", "listed", "detailed"
    eprice,           \* price_current, price_original, discount_percentage
    product_element,  \* enhanced: the listing element (see ProductElements)
    selector_idx,     \* enhanced: position of the loop over price_selectors, from 1
    listing_text,     \* comprehensive: the text around the name on the category page
    detail_text       \* comprehensive: the text of the detail page

entryVars == <<evariant, estage, eprice, product_element, selector_idx, listing_text,
               detail_text>>

\* the tag list of one entry
VARIABLES
    tvariant,       \* "comprehensive", "listing" (scripts/hyperpure_scraper.py) or "perfect"
    badges,         \* the badge elements the selectors match, in the order they are met
    page_keywords,  \* the vocabulary keywords the page text contains
    tag_packaging,  \* perfect: product.packaging_type
    tag_list,       \* the tags joined into product.tags, in order
    tpc             \* "call", "done"

tagsVars == <<tvariant, badges, page_keywords, tag_packaging, tag_list, tpc>>

\* scraped_timestamp of the entries of one run
VARIABLES
    cvariant,     \* the script: "comprehensive", "detailed" or "perfect"
    entry_count,  \* how many products the run meets
    clock,        \* the time datetime.now() reads, in ticks
    cpc,          \* "listing", "fetch", "enrich", "append", "done"
    entry_idx,    \* the product the run is at, from 1
    drafts,       \* per product met so far: its draft (see Draft)
    emitted       \* the entries appended to the output list, in order

stampVars == <<cvariant, entry_count, clock, cpc, entry_idx, drafts, emitted>>

\* a field filled by an ordered chain of strategies
VARIABLES
    chain_variant,   \* "storage" (PERFECT storage_patterns) or "name" (enhanced name_selectors)
    chain_cands,     \* per strategy, what it finds on the page (see Cand)
    chain_idx,       \* the position of the loop over the strategies, from 1
    chain_value,     \* the field
    chain_evaluated, \* history: the strategies evaluated so far, in order
    chain_pc         \* "loop", "done"

chainVars == <<chain_variant, chain_cands, chain_idx, chain_value, chain_evaluated, chain_pc>>

\* the unit size of one entry
VARIABLES
    uvariant,   \* "comprehensive" or "perfect"
    uname,      \* the product name, as the sequence of its words and quantities
    utext,      \* the page text (comprehensive) or the description (PERFECT)
    usize,      \* product.unit_size
    upc         \* "listing", "detail", "done"

unitVars == <<uvariant, uname, utext, usize, upc>>

\* one text field on its way from the page to the written row
VARIABLES
    qraw,     \* the text as extracted from the page
    qfield,   \* the entry's field
    qcell,    \* the field as written in the row of the file
    qpc       \* "extract", "save", "written"

quoteVars == <<qraw, qfield, qcell, qpc>>

\* the listing pages of one run (enhanced and base scrape_all_products)
VARIABLES
    gvariant,    \* "enhanced" or "base"
    plinks,      \* category_links, as get_category_links returned them
    gpc,         \* "start", "page", "call_done", "returned"
    pcat,        \* the category being scraped: 0 for the seed page, else an index of plinks
    page_num,    \* page_num of the running call of scrape_category_page
    plast,       \* history: what the latest page of the running call gave
    pcount,      \* history: the listing pages the running call asked for
    pfetched,    \* history: the URLs fetched successfully
    prefetched   \* history: the URLs fetched successfully more than once

pagesVars == <<gvariant, plinks, gpc, pcat, page_num, plast, pcount, pfetched, prefetched>>

\* main with --limit (detailed and PERFECT scripts)
VARIABLES
    lvariant,        \* "detailed" or "perfect"
    limit,           \* args.limit; 0 when the option is not given
    self_products,   \* scraper.products
    local_products,  \* main's local `products`
    lfile,           \* the output file
    lscraped,        \* history: the list the scrape returned
    lpc              \* "scraped", "limited", "done"

limitVars == <<lvariant, limit, self_products, local_products, lfile, lscraped, lpc>>

vars == <<fetchVars, priceVars, packagingVars, detailVars, perfectVars, runVars, sinkVars, entryVars, tagsVars, stampVars, chainVars, unitVars, quoteVars, pagesVars, limitVars>>

\* What a step of one component leaves alone: the other components.
FetchFrame == UNCHANGED <<priceVars, packagingVars, detailVars, perfectVars, runVars, sinkVars, entryVars, tagsVars, stampVars, chainVars, unitVars, quoteVars, pagesVars, limitVars>>

PriceFrame == UNCHANGED <<fetchVars, packagingVars, detailVars, perfectVars, runVars, sinkVars, entryVars, tagsVars, stampVars, chainVars, unitVars, quoteVars, pagesVars, limitVars>>

PackagingFrame == UNCHANGED <<fetchVars, priceVars, detailVars, perfectVars, runVars, sinkVars, entryVars, tagsVars, stampVars, chainVars, unitVars, quoteVars, pagesVars, limitVars>>

DetailFrame == UNCHANGED <<fetchVars, priceVars, packagingVars, perfectVars, runVars, sinkVars, entryVars, tagsVars, stampVars, chainVars, unitVars, quoteVars, pagesVars, limitVars>>

PerfectFrame == UNCHANGED <<fetchVars, priceVars, packagingVars, detailVars, runVars, sinkVars, entryVars, tagsVars, stampVars, chainVars, unitVars, quoteVars, pagesVars, limitVars>>

RunFrame == UNCHANGED <<fetchVars, priceVars, packagingVars, detailVars, perfectVars, sinkVars, entryVars, tagsVars, stampVars, chainVars, unitVars, quoteVars, pagesVars, limitVars>>

SinkFrame == UNCHANGED <<fetchVars, priceVars, packagingVars, detailVars, perfectVars, runVars, entryVars, tagsVars, stampVars, chainVars, unitVars, quoteVars, pagesVars, limitVars>>

EntryFrame == UNCHANGED <<fetchVars, priceVars, packagingVars, detailVars, perfectVars, runVars, sinkVars, tagsVars, stampVars, chainVars, unitVars, quoteVars, pagesVars, limitVars>>

TagsFrame == UNCHANGED <<fetchVars, priceVars, packagingVars, detailVars, perfectVars, runVars, sinkVars, entryVars, stampVars, chainVars, unitVars, quoteVars, pagesVars, limitVars>>

StampFrame == UNCHANGED <<fetchVars, priceVars, packagingVars, detailVars, perfectVars, runVars, sinkVars, entryVars, tagsVars, chainVars, unitVars, quoteVars, pagesVars, limitVars>>

ChainFrame == UNCHANGED <<fetchVars, priceVars, packagingVars, detailVars, perfectVars, runVars, sinkVars, entryVars, tagsVars, stampVars, unitVars, quoteVars, pagesVars, limitVars>>

UnitFrame == UNCHANGED <<fetchVars, priceVars, packagingVars, detailVars, perfectVars, runVars, sinkVars, entryVars, tagsVars, stampVars, chainVars, quoteVars, pagesVars, limitVars>>

QuoteFrame == UNCHANGED <<fetchVars, priceVars, packagingVars, detailVars, perfectVars, runVars, sinkVars, entryVars, tagsVars, stampVars, chainVars, unitVars, pagesVars, limitVars>>

PagesFrame == UNCHANGED <<fetchVars, priceVars, packagingVars, detailVars, perfectVars, runVars, sinkVars, entryVars, tagsVars, stampVars, chainVars, unitVars, quoteVars, limitVars>>

LimitFrame == UNCHANGED <<fetchVars, priceVars, packagingVars, detailVars, perfectVars, runVars, sinkVars, entryVars, tagsVars, stampVars, chainVars, unitVars, quoteVars, pagesVars>>

(***************************************************************************)
(* Bounds of the model.                                                    *)
(***************************************************************************)
\* largest max_retries a caller passes to safe_request (the default is 3)
MaxRetriesBound == 3

\* longest price text, in tokens
MaxTokens == 3

\* amounts 0..MaxAmount appear in price texts (besides a few fixed ones)
MaxAmount == 3

\* longest sequence of detail calls in one run
MaxCalls == 3

(***************************************************************************)
(* Small helpers.                                                          *)
(***************************************************************************)
Range(s) == { s[i] : i \in 1..Len(s) }

Last(s) == s[Len(s)]

\* All sequences over S of length 0..n.
SeqsUpTo(S, n) == UNION { [1..k -> S] : k \in 0..n }

\* The sequences that list every element of the finite set S once.
Orderings(S) ==
    { s \in [1..Cardinality(S) -> S] : \A i, j \in 1..Cardinality(S) : s[i] = s[j] => i = j }

\* s without the later occurrences of its elements
\* (the `seen` / `unique_prices` loop of extract_perfect_price_info)
RECURSIVE Dedup(_)
Dedup(s) ==
    IF s = <<>> THEN <<>>
    ELSE LET front == Dedup(SubSeq(s, 1, Len(s) - 1))
         IN  IF Last(s) \in Range(front) THEN front ELSE Append(front, Last(s))

(***************************************************************************)
(* Fetch layer: safe_request.                                              *)
(***************************************************************************)
\* "requests": safe_request of the classes whose handler is
\*             `except requests.exceptions.RequestException`
\* "perfect" : safe_request of HyperpurePerfectScraper, whose handler is `except Exception`
\* "selenium": get_page_selenium of HyperpureScraperEnhanced (one driver.get,
\*             `except Exception`, no retry loop)
FetchVariants == {"requests", "perfect", "selenium"}

Pending == [kind |-> "pending", content |-> 0]

None == [kind |-> "None", content |-> 0]

\* The parsed page of the k-th attempt.
Content(k) == [kind |-> "content", content |-> k]

\* What one attempt (session.get, raise_for_status, BeautifulSoup(...)) can do.
\*   ok          2xx and the body parsed
\*   http4xx     raise_for_status raised HTTPError for a 4xx status
\*   http5xx     raise_for_status raised HTTPError for a 5xx status
\*   timeout     requests.exceptions.Timeout (timeout=30)
\*   transport   requests.exceptions.ConnectionError
\*   parse_error BeautifulSoup(response.content, 'lxml') raised (not a RequestException)
\*   interrupt   KeyboardInterrupt delivered during the attempt (a BaseException)
AttemptOutcomes == {"ok", "http4xx", "http5xx", "timeout", "transport", "parse_error", "interrupt"}

\* The subclasses of requests.exceptions.RequestException among the outcomes.
RequestExceptions == {"http4xx", "http5xx", "timeout", "transport"}

\* The outcomes that are subclasses of Exception (KeyboardInterrupt is not).
Exceptions == RequestExceptions \cup {"parse_error"}

\* A handler that would let an HTTP 4xx status through: not the code's, kept
\* to show that the retry contract depends on what the handler catches.
CaughtNo4xx(v, o) ==
    IF v = "perfect" THEN o \in Exceptions ELSE o \in (RequestExceptions \ {"http4xx"})

\* Whether the except clause of safe_request catches outcome o.
Caught(v, o) ==
    IF v = "perfect" THEN o \in Exceptions ELSE o \in RequestExceptions

\* `if attempt == max_retries - 1`
LastAttempt(a, m) == a = m - 1

\* get_page_selenium has no max_retries: it issues one driver.get.
FetchInit ==
    /\ variant \in FetchVariants
    /\ max_retries \in (IF variant = "selenium" THEN {1} ELSE 0..MaxRetriesBound)
    /\ attempt = 0
    /\ fpc = "loop"
    /\ outcomes = <<>>
    /\ sleeps = <<>>
    /\ fresult = Pending
    /\ escaped = "none"

\* `for attempt in range(max_retries):` and the `return None` after the loop
LoopHead ==
    /\ variant # "selenium"
    /\ fpc = "loop"
    /\ IF attempt < max_retries
         THEN /\ fpc' = "sleep"
              /\ UNCHANGED fresult
         ELSE /\ fpc' = "done"
              /\ fresult' = None
    /\ UNCHANGED <<variant, max_retries, attempt, outcomes, sleeps, escaped>>
    /\ FetchFrame

\* `time.sleep(random.uniform(1, 3))`
PolitenessSleep ==
    /\ fpc = "sleep"
    /\ sleeps' = Append(sleeps, "polite")
    /\ fpc' = "get"
    /\ UNCHANGED <<variant, max_retries, attempt, outcomes, fresult, escaped>>
    /\ FetchFrame

\* session.get, raise_for_status, BeautifulSoup, and the except clause up to
\* the backoff sleep
Attempt(o) ==
    /\ fpc = "get"
    /\ outcomes' = Append(outcomes, o)
    /\ sleeps' = Append(sleeps, "attempt")
    /\ IF o = "ok"
         THEN /\ fresult' = Content(attempt + 1)
              /\ fpc' = "done"
              /\ UNCHANGED escaped
         ELSE IF Caught(variant, o)
           THEN IF LastAttempt(attempt, max_retries)
                  THEN /\ fresult' = None
                       /\ fpc' = "done"
                       /\ UNCHANGED escaped
                  ELSE /\ fpc' = "backoff"
                       /\ UNCHANGED <<fresult, escaped>>
           ELSE /\ escaped' = o
                /\ fpc' = "done"
                /\ UNCHANGED fresult
    /\ UNCHANGED <<variant, max_retries, attempt>>
    /\ FetchFrame

\* `time.sleep(random.uniform(2, 5))` and the step to the next iteration
BackoffSleep ==
    /\ fpc = "backoff"
    /\ sleeps' = Append(sleeps, "backoff")
    /\ attempt' = attempt + 1
    /\ fpc' = "loop"
    /\ UNCHANGED <<variant, max_retries, outcomes, fresult, escaped>>
    /\ FetchFrame

\* get_page_selenium: driver.get, the wait for <body>, `time.sleep(2)`,
\* BeautifulSoup(page_source), all inside one try / `except Exception`
GetPageSelenium(o) ==
    /\ variant = "selenium"
    /\ fpc = "loop"
    /\ outcomes' = Append(outcomes, o)
    /\ fpc' = "done"
    /\ IF o = "ok"
         THEN /\ sleeps' = sleeps \o <<"attempt", "settle">>
              /\ fresult' = Content(1)
              /\ UNCHANGED escaped
         ELSE /\ sleeps' = Append(sleeps, "attempt")
              /\ IF o \in Exceptions
                   THEN /\ fresult' = None
                        /\ UNCHANGED escaped
                   ELSE /\ escaped' = o
                        /\ UNCHANGED fresult
    /\ UNCHANGED <<variant, max_retries, attempt>>
    /\ FetchFrame

FetchNext ==
    \/ LoopHead
    \/ PolitenessSleep
    \/ \E o \in AttemptOutcomes : Attempt(o)
    \/ BackoffSleep
    \/ \E o \in AttemptOutcomes : GetPageSelenium(o)

(***************************************************************************)
(* Claims about the fetch layer.                                           *)
(***************************************************************************)

\* C1: safe_request issues its attempts one at a time and never more than
\* max_retries of them; a successful attempt is the last one and the call
\* returns the content of exactly that attempt; a 4xx status, a 5xx status, a
\* timeout and a transport error are all handled the same way: the attempt is
\* consumed, nothing escapes, and the call goes on to another attempt unless
\* it was the last, in which case it returns None.
C1_RetryContract ==
    variant # "selenium" =>
      /\ Len(outcomes) <= max_retries
      /\ Len(outcomes) \in {attempt, attempt + 1}
      /\ \A i \in 1..(Len(outcomes) - 1) : Caught(variant, outcomes[i])
      /\ fresult.kind = "content" =>
            /\ fpc = "done"
            /\ Last(outcomes) = "ok"
            /\ fresult = Content(Len(outcomes))
      /\ (outcomes # <<>> /\ Last(outcomes) = "ok") =>
            /\ fpc = "done"
            /\ fresult = Content(Len(outcomes))
      /\ (outcomes # <<>> /\ Last(outcomes) \in RequestExceptions) =>
            /\ escaped = "none"
            /\ fpc = "done" <=> Len(outcomes) = max_retries
            /\ fpc = "done" => fresult = None

\* C1 witness: two failures of different kinds, then a success, with
\* max_retries = 3: the third attempt's content after exactly three attempts.
C1_Witness ==
    /\ variant = "requests"
    /\ max_retries = 3
    /\ fpc = "done"
    /\ outcomes = <<"http4xx", "timeout", "ok">>
    /\ fresult = Content(3)

\* The attempts a fetch call may use.
AttemptsAllowed == IF variant = "selenium" THEN 1 ELSE max_retries

\* C2: a fetch all of whose attempts failed (with an HTTP status error, a
\* transport error, a timeout or an error raised while parsing the body)
\* returns None and lets no exception escape.
C2_ExhaustedReturnsNone ==
    ( /\ fpc = "done"
      /\ outcomes # <<>>
      /\ Len(outcomes) = AttemptsAllowed
      /\ \A i \in 1..Len(outcomes) : outcomes[i] \in Exceptions )
    => (fresult = None /\ escaped = "none")

\* The number of entries of the sequence s that equal x.
Count(s, x) == Cardinality({ i \in DOMAIN s : s[i] = x })

\* C20: on either transport every network attempt comes directly after one
\* politeness sleep, and a backoff sleep comes after a failed attempt exactly
\* when another attempt follows: a finished call with n attempts has slept n
\* politeness sleeps and n - 1 backoff sleeps, none after its last attempt.
C20_SleepDiscipline ==
    /\ \A i \in DOMAIN sleeps :
         sleeps[i] = "attempt" =>
           /\ i > 1
           /\ sleeps[i - 1] = "polite"
           /\ i > 2 => sleeps[i - 2] # "polite"
    /\ \A i \in DOMAIN sleeps :
         sleeps[i] = "backoff" =>
           /\ i > 1
           /\ sleeps[i - 1] = "attempt"
           /\ i < Len(sleeps) \/ fpc # "done"
    /\ fpc = "done" =>
         /\ Count(sleeps, "polite") = Len(outcomes)
         /\ outcomes # <<>> => Count(sleeps, "backoff") = Len(outcomes) - 1

(***************************************************************************)
(* Normalizer: extract_price_info / extract_perfect_price_info.            *)
(*                                                                         *)
(* A price text is a sequence of tokens.  Amounts are whole numbers.       *)
(*   glyph  the currency glyph directly followed by a number   (₹199)      *)
(*   suffix a number followed by a stand-alone glyph           (199 ₹)     *)
(*   rs     "Rs" or "Rs." followed by a number                 (Rs. 199)   *)
(*   word   any other text                                                 *)
(* The glyph is the one the variant's regular expressions are written      *)
(* with.                                                                   *)
(***************************************************************************)
PriceVariants == {"text", "perfect"}

Amounts == (0..MaxAmount) \cup {16, 199, 249}

PriceTokens ==
    [kind : {"glyph", "suffix", "rs"}, amount : Amounts] \cup {[kind |-> "word", amount |-> 0]}

\* An unset field ("") and a set one.  A discount is held in tenths of a
\* percent: 201 is "20.1%".
Unset == [set |-> FALSE, v |-> 0]

Val(a) == [set |-> TRUE, v |-> a]

AmountsOf(toks) == [i \in 1..Len(toks) |-> toks[i].amount]

\* re.findall(r'₹(\d+(?:,\d+)*(?:\.\d+)?)', text): the glyph tokens, in document order
GlyphMatches(text) == AmountsOf(SelectSeq(text, LAMBDA t : t.kind = "glyph"))

\* re.findall(r'(\d+)\s*₹', text): a number followed by a glyph, which is a
\* suffix token, or a number-ending token directly before a glyph token
SuffixMatches(text) ==
    LET hit(i) == \/ text[i].kind = "suffix"
                  \/ /\ text[i].kind \in {"glyph", "rs"}
                     /\ i < Len(text)
                     /\ text[i + 1].kind = "glyph"
        RECURSIVE from(_)
        from(i) == IF i > Len(text) THEN <<>>
                   ELSE IF hit(i) THEN <<text[i].amount>> \o from(i + 1)
                   ELSE from(i + 1)
    IN  from(1)

\* re.findall(r'Rs\.?\s*(\d+(?:,\d+)*(?:\.\d+)?)', text)
RsMatches(text) == AmountsOf(SelectSeq(text, LAMBDA t : t.kind = "rs"))

\* The price list the variant works from: price_matches, or unique_prices.
PriceMatches(v, text) ==
    IF v = "perfect"
      THEN Dedup(GlyphMatches(text) \o SuffixMatches(text) \o RsMatches(text))
      ELSE GlyphMatches(text)

\* f"{((original_val - current_val) / original_val * 100):.1f}%" for o > c >= 0,
\* in tenths of a percent.  The float is formatted to the nearest tenth; where
\* the exact quotient lies halfway between two tenths the result depends on the
\* float's rounding error, so both neighbours are possible.
DiscountTenths(c, o) ==
    LET num == (o - c) * 1000
        lo  == num \div o
    IN  IF 2 * (num % o) < o THEN {lo}
        ELSE IF 2 * (num % o) > o THEN {lo + 1}
        ELSE {lo, lo + 1}

\* extract_price_info with the two tokens taken the other way round: not the
\* code's, kept to show that the price properties depend on the order.
PriceInfoSwapped(m) ==
    IF m = <<>> THEN { [current |-> Unset, original |-> Unset, discount |-> Unset] }
    ELSE IF Len(m) = 1 THEN { [current |-> Val(m[1]), original |-> Unset, discount |-> Unset] }
    ELSE IF m[1] > m[2]
      THEN { [current |-> Val(m[2]), original |-> Val(m[1]), discount |-> Val(d)] :
                 d \in DiscountTenths(m[2], m[1]) }
      ELSE { [current |-> Val(m[2]), original |-> Val(m[1]), discount |-> Unset] }

\* The triples extract_price_info can return for the price list m.
PriceInfo(m) ==
    IF m = <<>> THEN { [current |-> Unset, original |-> Unset, discount |-> Unset] }
    ELSE IF Len(m) = 1 THEN { [current |-> Val(m[1]), original |-> Unset, discount |-> Unset] }
    ELSE IF m[2] > m[1]
      THEN { [current |-> Val(m[1]), original |-> Val(m[2]), discount |-> Val(d)] :
                 d \in DiscountTenths(m[1], m[2]) }
      ELSE { [current |-> Val(m[1]), original |-> Val(m[2]), discount |-> Unset] }

PriceInit ==
    /\ pvariant \in PriceVariants
    /\ price_text \in SeqsUpTo(PriceTokens, MaxTokens)
    /\ ppc = "call"
    /\ price = [current |-> Unset, original |-> Unset, discount |-> Unset]

\* one call of extract_price_info(price_text) / extract_perfect_price_info(soup, product_text)
ExtractPriceInfo ==
    /\ ppc = "call"
    /\ price' \in PriceInfo(PriceMatches(pvariant, price_text))
    /\ ppc' = "done"
    /\ UNCHANGED <<pvariant, price_text>>
    /\ PriceFrame

PriceNext == ExtractPriceInfo

(***************************************************************************)
(* Claims about price normalization.                                       *)
(***************************************************************************)

\* The currency tokens of the text (glyph followed by a number), in document order.
CurrencyTokens == GlyphMatches(price_text)

\* d is the percentage (o - c) / o * 100 rounded to one decimal, in tenths.
IsRoundedDiscount(d, c, o) ==
    /\ 2 * (d * o - (o - c) * 1000) <= o
    /\ 2 * ((o - c) * 1000 - d * o) <= o

C7_DescendingPairUnset ==
    (ppc = "done" /\ Len(CurrencyTokens) >= 2 /\ CurrencyTokens[2] <= CurrencyTokens[1]) =>
      /\ price.current = Val(CurrencyTokens[1])
      /\ price.original = Unset
      /\ price.discount = Unset

(***************************************************************************)
(* Packaging class at the listing stage (extract_products_from_page).      *)
(*                                                                         *)
(* A product name is held as the set of keywords that occur in it.         *)
(***************************************************************************)

\* The packaging keywords of the classifiers (frozen, fresh, chilled, ambient,
\* dry) and the two further words the listing stage looks for.
PackagingKeywords == {"frozen", "fresh", "chilled", "ambient", "dry"}

NameKeywords == PackagingKeywords \cup {"freeze", "dairy"}

\* keyword.title() for a packaging keyword
KeywordClass(k) ==
    CASE k = "frozen" -> "Frozen"
      [] k = "fresh" -> "Fresh"
      [] k = "chilled" -> "Chilled"
      [] k = "ambient" -> "Ambient"
      [] k = "dry" -> "Dry"

\* Values of category_map, and one name that is not in it.
ChilledCategories ==
    {"Milk & Milk Powder", "Cheese", "Butter", "Paneer", "Cream", "Curd/Yogurt"}

DryCategories == {"Rice & Rice Products", "Atta, Maida, Sooji", "Salt & Sugar"}

CategoryNames == ChilledCategories \cup DryCategories \cup {"Chicken", "Menu Add-ons"}

\* The if / elif chain that sets product.packaging_type from the product name
\* and, failing that, from the category.
ListingPackaging(kw, cat) ==
    IF kw \cap {"frozen", "freeze"} # {} THEN [class |-> "Frozen", by |-> "keyword"]
    ELSE IF kw \cap {"fresh", "dairy"} # {} THEN [class |-> "Fresh", by |-> "keyword"]
    ELSE IF cat \in ChilledCategories THEN [class |-> "Chilled", by |-> "category"]
    ELSE IF cat \in DryCategories THEN [class |-> "Dry", by |-> "category"]
    ELSE [class |-> "", by |-> "none"]

PackagingInit ==
    /\ name_keywords \in SUBSET NameKeywords
    /\ category_name \in CategoryNames
    /\ kpc = "call"
    /\ packaging_type = ""
    /\ packaging_by = "none"

\* the packaging decision of extract_products_from_page for one product
ClassifyListingPackaging ==
    /\ kpc = "call"
    /\ packaging_type' = ListingPackaging(name_keywords, category_name).class
    /\ packaging_by' = ListingPackaging(name_keywords, category_name).by
    /\ kpc' = "done"
    /\ UNCHANGED <<name_keywords, category_name>>
    /\ PackagingFrame

PackagingNext == ClassifyListingPackaging

\* C9: a category-level default is assigned only when the classified text
\* contains none of the packaging keywords; whenever the text contains one of
\* them the resulting class is the class of a keyword it contains.
C9_KeywordBeatsCategoryDefault ==
    kpc = "done" =>
      /\ packaging_by = "category" => name_keywords \cap PackagingKeywords = {}
      /\ name_keywords \cap PackagingKeywords # {} =>
            packaging_type \in { KeywordClass(k) : k \in name_keywords \cap PackagingKeywords }

(***************************************************************************)
(* Texts, URLs and product records.                                        *)
(*                                                                         *)
(* A string is held by what the code looks at: its words (id), and how     *)
(* many of its characters are ordinary ones (chars, single inner spaces    *)
(* included), double quotes (quotes), whitespace that collapsing a run     *)
(* removes (runs), and leading or trailing whitespace (pad).               *)
(***************************************************************************)
Text(id, chars, quotes, runs, pad) ==
    [id |-> id, chars |-> chars, quotes |-> quotes, runs |-> runs, pad |-> pad]

EmptyText == Text("", 0, 0, 0, 0)

\* len(text)
TextLen(t) == t.chars + t.quotes + t.runs + t.pad

\* text.strip()
Strip(t) == IF t.chars + t.quotes = 0 THEN EmptyText ELSE [t EXCEPT !.pad = 0]

\* clean_text: strip, collapse whitespace runs, double every quote
CleanText(t) ==
    IF t.chars + t.quotes = 0 THEN EmptyText
    ELSE Text(t.id, t.chars, 2 * t.quotes, 0, 0)

\* text[:k] of a cleaned text whose quotes lie in the part that is kept
Truncate(t, k) == IF TextLen(t) <= k THEN t ELSE [t EXCEPT !.chars = k - t.quotes]

\* An element the page may hold: soup.find(...) is None, or a tag with a text.
NoElem == [present |-> FALSE, text |-> EmptyText]

Elem(t) == [present |-> TRUE, text |-> t]

\* A link is the sequence of the path segments of its href ('/in/x/../a' is
\* <<"in", "x", "..", "a">>); an absolute URL on base_url is the sequence of
\* the segments of its path, and the empty string is <<>>.
NoUrl == <<>>

\* The dot-segment removal urljoin does on the path of the reference.
RECURSIVE RemoveDotSegments(_)
RemoveDotSegments(segs) ==
    IF segs = <<>> THEN <<>>
    ELSE LET front == RemoveDotSegments(SubSeq(segs, 1, Len(segs) - 1))
         IN  CASE Last(segs) = "." -> front
               [] Last(segs) = ".." ->
                    IF front = <<>> THEN <<>> ELSE SubSeq(front, 1, Len(front) - 1)
               [] OTHER -> Append(front, Last(segs))

\* urljoin(self.base_url, href) for a href that starts with '/'
UrlJoin(href) == RemoveDotSegments(href)

\* re.search(r'/([a-zA-Z0-9\-_]+)(?:\?|$)', urlparse(url).path): the last segment
SkuOf(url) == IF url = NoUrl THEN "" ELSE Last(url)

\* Product() / DetailedProduct(): the fields the detail stage reads or writes
NewProduct ==
    [product_name |-> EmptyText,
     price_current |-> Unset, price_original |-> Unset, discount_percentage |-> Unset,
     product_description |-> EmptyText,
     product_image_url |-> "",
     product_page_url |-> NoUrl,
     unit_size |-> "",
     packaging_type |-> "",
     ingredients |-> EmptyText,
     nutritional_info |-> EmptyText,
     storage_instructions |-> EmptyText,
     tags |-> {},
     sku_code |-> ""]

TextFields == {"product_name", "product_description", "ingredients",
               "nutritional_info", "storage_instructions"}

PriceFields == {"price_current", "price_original", "discount_percentage"}

StringFields == {"product_image_url", "unit_size", "packaging_type", "sku_code"}

\* every field but the source URL
EntryFields == TextFields \cup PriceFields \cup StringFields \cup {"tags"}

\* `not product.<field>`
FieldEmpty(p, f) ==
    CASE f \in TextFields -> TextLen(p[f]) = 0
      [] f \in PriceFields -> ~p[f].set
      [] f \in StringFields -> p[f] = ""
      [] f = "tags" -> p[f] = {}
      [] f = "product_page_url" -> p[f] = NoUrl

\* The facts of a product page the detail stage looks at.
\*   title, h1     the <title> and the first <h1>
\*   desc          per description pattern or selector that matches, in order,
\*                 the text it yields
\*   price_text    the price tokens of soup.get_text()
\*   image         "none", "ok", or "malformed": a src such as
\*                 'https://[assets.hyperpure.com/a.jpg', on which urljoin raises
\*   ingredients, nutrition, storage
\*                 per pattern that matches, in order, its group(1)
\*   keywords      the keywords that occur in soup.get_text().lower()
\*   unit          extract_unit_size(soup.get_text())
BlankPage ==
    [title |-> NoElem, h1 |-> NoElem, desc |-> <<>>, price_text |-> <<>>,
     image |-> "none", ingredients |-> <<>>, nutrition |-> <<>>, storage |-> <<>>,
     keywords |-> {}, unit |-> ""]

\* The first element of the sequence whose index is in the set, or 0.
FirstIn(S) == IF S = {} THEN 0 ELSE CHOOSE i \in S : \A j \in S : i <= j

\* The result of extract_price_info on a text whose discount has one rounding.
ThePriceInfo(m) == CHOOSE x \in PriceInfo(m) : TRUE

WithPrice(p, x) ==
    [p EXCEPT !.price_current = x.current, !.price_original = x.original,
              !.discount_percentage = x.discount]

(***************************************************************************)
(* Detail stage: scrape_product_details (comprehensive, enhanced) and      *)
(* scrape_detailed_product_info (detailed).                                *)
(***************************************************************************)
DetailVariants == {"comprehensive", "enhanced", "detailed"}

\* --- comprehensive: the steps of the try block, in order ---

\* `if not product.product_name:` the <title> without its ' Wholesalers...'
\* suffix (page.title holds the part that is kept)
NameFromTitle(p, g) ==
    IF TextLen(p.product_name) = 0 /\ g.title.present
    THEN [p EXCEPT !.product_name = CleanText(g.title.text)]
    ELSE p

\* `if h1_tag and len(h1_tag.get_text().strip()) > len(product.product_name)`
NameFromLongerH1(p, g) ==
    IF g.h1.present /\ TextLen(Strip(g.h1.text)) > TextLen(p.product_name)
    THEN [p EXCEPT !.product_name = CleanText(g.h1.text)]
    ELSE p

\* the desc_patterns loop: the first pattern whose longest match has
\* 30 < len < 500 sets the description
DescriptionFromPatterns(p, g) ==
    LET i == FirstIn({ k \in DOMAIN g.desc :
                         TextLen(g.desc[k]) > 30 /\ TextLen(g.desc[k]) < 500 })
    IN  IF i = 0 THEN p ELSE [p EXCEPT !.product_description = CleanText(g.desc[i])]

\* `if not product.price_current:` all three price fields from the page text
PriceIfMissing(p, g) ==
    IF ~p.price_current.set
    THEN WithPrice(p, ThePriceInfo(PriceMatches("text", g.price_text)))
    ELSE p

\* the image loop; a malformed src makes urljoin raise (see ComprehensiveDetail)
ImageFromPage(p, g) ==
    IF g.image = "ok" THEN [p EXCEPT !.product_image_url = "image"] ELSE p

\* the ingredients_patterns loop: the first match with 10 < len(cleaned) < 200
IngredientsFromPatterns(p, g) ==
    LET i == FirstIn({ k \in DOMAIN g.ingredients :
                         /\ TextLen(CleanText(g.ingredients[k])) > 10
                         /\ TextLen(CleanText(g.ingredients[k])) < 200 })
    IN  IF i = 0 THEN p ELSE [p EXCEPT !.ingredients = CleanText(g.ingredients[i])]

FeatureKeywords ==
    {"premium", "imported", "handcrafted", "frozen", "fresh", "organic", "natural", "quality"}

\* keyword.title(), held as the keyword; product.tags is held as the set of
\* the joined tags (";".join(list(set(tags))) fixes no order)
TagsFromKeywords(p, g) ==
    IF g.keywords \cap FeatureKeywords # {}
    THEN [p EXCEPT !.tags = g.keywords \cap FeatureKeywords]
    ELSE p

SkuFromUrl(p) ==
    IF SkuOf(p.product_page_url) # ""
    THEN [p EXCEPT !.sku_code = SkuOf(p.product_page_url)]
    ELSE p

\* `if not product.unit_size:`
UnitIfMissing(p, g) == IF p.unit_size = "" THEN [p EXCEPT !.unit_size = g.unit] ELSE p

\* The try block of scrape_product_details (comprehensive).  An exception in
\* a step leaves the later steps out: the handler logs and the product is
\* returned as it is.
ComprehensiveDetail(p, g) ==
    LET named == NameFromLongerH1(NameFromTitle(p, g), g)
        priced == PriceIfMissing(DescriptionFromPatterns(named, g), g)
    IN  IF g.image = "malformed"
        THEN [raised |-> TRUE, product |-> priced]
        ELSE [raised |-> FALSE,
              product |-> UnitIfMissing(SkuFromUrl(TagsFromKeywords(
                            IngredientsFromPatterns(ImageFromPage(priced, g), g), g)), g)]

\* --- enhanced ---

\* the desc_selectors loop: the first selected element whose cleaned text is
\* longer than 50
DescriptionFromSelectors(p, g) ==
    LET i == FirstIn({ k \in DOMAIN g.desc : TextLen(CleanText(g.desc[k])) > 50 })
    IN  IF i = 0 THEN p ELSE [p EXCEPT !.product_description = CleanText(g.desc[i])]

\* `if ingredients_match: product.ingredients = self.clean_text(group(1))`
IngredientsFromMatch(p, g) ==
    IF g.ingredients # <<>>
    THEN [p EXCEPT !.ingredients = CleanText(g.ingredients[1])]
    ELSE p

\* the nutrition_keywords loop: the first keyword that matches
NutritionFromMatch(p, g) ==
    IF g.nutrition # <<>>
    THEN [p EXCEPT !.nutritional_info = CleanText(g.nutrition[1])]
    ELSE p

\* the packaging_keywords dict, in its order
DetailPackagingOrder(v) ==
    IF v = "detailed" THEN <<"frozen", "fresh", "chilled", "ambient">>
    ELSE <<"frozen", "fresh", "chilled", "ambient", "dry">>

PackagingFromPage(v, p, g) ==
    LET order == DetailPackagingOrder(v)
        i == FirstIn({ k \in DOMAIN order : order[k] \in g.keywords })
    IN  IF i = 0 THEN p ELSE [p EXCEPT !.packaging_type = KeywordClass(order[i])]

EnhancedDetail(p, g) ==
    [raised |-> FALSE,
     product |-> UnitIfMissing(PackagingFromPage("enhanced", SkuFromUrl(NutritionFromMatch(
                   IngredientsFromMatch(DescriptionFromSelectors(p, g), g), g)), g), g)]

\* --- detailed ---

\* `if h1_tag: product.product_name = self.clean_text(h1_tag.get_text())`
NameFromH1(p, g) ==
    IF g.h1.present
    THEN [p EXCEPT !.product_name = CleanText(g.h1.text)]
    ELSE p

\* the desc_patterns loop of scrape_detailed_product_info
DescriptionTruncated(p, g) ==
    LET i == FirstIn({ k \in DOMAIN g.desc : TextLen(CleanText(g.desc[k])) > 50 })
    IN  IF i = 0 THEN p
        ELSE [p EXCEPT !.product_description = Truncate(CleanText(g.desc[i]), 500)]

\* specs['storage_instructions'] of extract_detailed_specifications, applied
\* by `if hasattr(product, key) and value: setattr(product, key, value)`
StorageFromSpecs(p, g) ==
    IF g.storage # <<>> /\ TextLen(CleanText(g.storage[1])) > 0
    THEN [p EXCEPT !.storage_instructions = CleanText(g.storage[1])]
    ELSE p

DetailedDetail(p, g) ==
    [raised |-> FALSE,
     product |-> UnitIfMissing(SkuFromUrl(PackagingFromPage("detailed", StorageFromSpecs(
                   DescriptionTruncated(NameFromTitle(NameFromH1(p, g), g), g), g), g)), g)]

\* The try block of the detail stage of variant v on draft p and page g.
DetailOf(v, p, g) ==
    CASE v = "comprehensive" -> ComprehensiveDetail(p, g)
      [] v = "enhanced" -> EnhancedDetail(p, g)
      [] v = "detailed" -> DetailedDetail(p, g)

\* --- the inputs of the detail stage ---

\* product links of a listing page
Hrefs == { <<"in", "walnut-brownie">>, <<"in", "cakes", "..", "walnut-brownie">>,
           <<"in", "ghee-1l">> }

NoPrice == [current |-> Unset, original |-> Unset, discount |-> Unset]

ListingPrices ==
    {NoPrice,
     [current |-> Val(199), original |-> Unset, discount |-> Unset],
     [current |-> Val(199), original |-> Val(249), discount |-> Val(201)]}

\* clean_text(link.get_text()) with len > 5 (comprehensive), > 3 (the others)
ListingNames(v) ==
    IF v = "comprehensive"
    THEN {Text("Walnut Brownie", 14, 0, 0, 0), Text("Pizza Base 6 inch", 13, 2, 0, 0)}
    ELSE {Text("Walnut Brownie", 14, 0, 0, 0), Text("Ghee", 4, 0, 0, 0)}

\* The products extract_products_from_page (comprehensive) builds for a link.
ComprehensiveDrafts(href) ==
    { [WithPrice(NewProduct, x) EXCEPT
          !.product_name = n, !.product_page_url = UrlJoin(href),
          !.unit_size = u, !.packaging_type = k] :
        n \in ListingNames("comprehensive"), x \in ListingPrices,
        u \in {"", "80 gm"}, k \in {"", "Chilled"} }

\* The products extract_product_from_listing (enhanced, detailed) returns:
\* a name always, a link if the element has one.
ElementDrafts(v, href) ==
    { [WithPrice(NewProduct, x) EXCEPT
          !.product_name = n, !.product_page_url = url,
          !.unit_size = u, !.product_image_url = img, !.tags = t] :
        n \in ListingNames(v), x \in ListingPrices, url \in {NoUrl, UrlJoin(href)},
        u \in {"", "80 gm"}, img \in {"", "thumb"}, t \in {{}, {"veg"}} }

\* The product scrape_all_detailed_products builds from a product URL.
UrlDraft(href) == [NewProduct EXCEPT !.product_page_url = UrlJoin(href)]

ListingDrafts(v, href) ==
    CASE v = "comprehensive" -> ComprehensiveDrafts(href)
      [] v = "enhanced" -> ElementDrafts(v, href)
      [] v = "detailed" -> ElementDrafts(v, href) \cup {UrlDraft(href)}

H1Elems ==
    {NoElem, Elem(EmptyText), Elem(Text("", 0, 0, 0, 2)), Elem(Text("Ghee", 4, 0, 0, 1)),
     Elem(Text("Walnut Brownie 80 gm", 20, 0, 1, 2)),
     Elem(Text("Brownie Pack", 12, 0, 8, 0))}

TitleElems == {NoElem, Elem(Text("Walnut Brownie Online", 21, 0, 0, 0))}

DescShort == Text("Rich taste.", 11, 0, 0, 0)

DescValid == Text("Indulge in a rich brownie", 58, 2, 3, 0)

DescLong == Text("A premium brownie", 600, 0, 0, 0)

DescCandidates == {<<>>, <<DescValid>>, <<DescShort, DescValid>>, <<DescLong>>}

MatchCandidates(t) == {<<>>, <<t>>, <<Text("", 0, 0, 0, 1)>>}

PagePriceTexts ==
    {<<>>, <<[kind |-> "glyph", amount |-> 199], [kind |-> "glyph", amount |-> 249]>>}

\* The pages a variant can be given; the facts it does not look at are blank.
DetailPages(v) ==
    CASE v = "comprehensive" ->
           { [BlankPage EXCEPT !.title = ti, !.h1 = h, !.desc = d, !.price_text = pt,
                               !.image = im, !.ingredients = ing, !.keywords = kw,
                               !.unit = u] :
               ti \in TitleElems \ {NoElem}, h \in H1Elems, d \in DescCandidates,
               pt \in PagePriceTexts, im \in {"none", "ok", "malformed"},
               ing \in MatchCandidates(Text("cocoa, walnut, butter", 21, 0, 0, 1)),
               kw \in SUBSET {"premium", "dry"}, u \in {"", "1 Kg"} }
      [] v = "enhanced" ->
           { [BlankPage EXCEPT !.desc = d, !.ingredients = ing, !.nutrition = nu,
                               !.keywords = kw, !.unit = u] :
               d \in DescCandidates,
               ing \in MatchCandidates(Text("cocoa, walnut, butter", 21, 0, 0, 1)),
               nu \in MatchCandidates(Text("12 g protein", 12, 0, 0, 0)),
               kw \in SUBSET {"chilled", "dry"}, u \in {"", "1 Kg"} }
      [] v = "detailed" ->
           { [BlankPage EXCEPT !.title = ti, !.h1 = h, !.desc = d, !.storage = st,
                               !.keywords = kw, !.unit = u] :
               ti \in TitleElems, h \in H1Elems, d \in DescCandidates,
               st \in MatchCandidates(Text("Store at -18 C or below", 23, 0, 0, 0)),
               kw \in SUBSET {"chilled", "dry"}, u \in {"", "1 Kg"} }

\* What the fetch of the page gives the detail stage: a soup, None, or an
\* exception that leaves safe_request.
SoupOutcomes == {"content", "None", "escape"}

\* The early return without its scraped_urls test: not the code's, kept to
\* show that the frontier properties depend on that test.
SkipsFetchUnvisited(p, visited) == p.product_page_url = NoUrl

\* `if not product.product_page_url or product.product_page_url in self.scraped_urls`
SkipsFetch(p, visited) ==
    p.product_page_url = NoUrl \/ p.product_page_url \in visited

DetailInit ==
    /\ dvariant \in DetailVariants
    /\ scraped_urls = {}
    /\ listing = NewProduct
    /\ product = NewProduct
    /\ page = BlankPage
    /\ call_log = <<>>

\* Not the code's: a visited set that keeps the latest URL only, kept to show
\* that the claim about the set's growth depends on `add`.
OnlyLatest(visited, url) == {url}

\* `self.scraped_urls.add(product.product_page_url)`
MarkScraped(visited, url) == visited \cup {url}

\* One call of scrape_product_details / scrape_detailed_product_info on a
\* product the listing stage built from the link href.  call_log keeps, per
\* call, the link, the URL, whether a fetch was issued, whether the URL was
\* added to scraped_urls, and how the call ended.
ScrapeProductDetails(href, draft, soup, g) ==
    LET url == draft.product_page_url
        entry(fetched, marked, ending) ==
            [href |-> href, url |-> url, fetched |-> fetched, marked |-> marked,
             ending |-> ending]
    IN
    /\ listing' = draft
    /\ UNCHANGED dvariant
    /\ DetailFrame
    /\ IF SkipsFetch(draft, scraped_urls)
       THEN /\ product' = draft
            /\ page' = BlankPage
            /\ call_log' = Append(call_log, entry(FALSE, FALSE, "skipped"))
            /\ UNCHANGED scraped_urls
       ELSE IF soup # "content"
       THEN /\ product' = draft
            /\ page' = BlankPage
            /\ call_log' = Append(call_log,
                                  entry(TRUE, FALSE, IF soup = "None" THEN "unfetched" ELSE "escaped"))
            /\ UNCHANGED scraped_urls
       ELSE /\ scraped_urls' = MarkScraped(scraped_urls, url)
            /\ product' = DetailOf(dvariant, draft, g).product
            /\ page' = g
            /\ call_log' = Append(call_log,
                                  entry(TRUE, TRUE,
                                        IF DetailOf(dvariant, draft, g).raised
                                        THEN "raised" ELSE "enriched"))

\* The canonical link of the single-call specification.
DetailHref == <<"in", "walnut-brownie">>

\* One detail call on any draft the listing stage can build and any page.
DetailCall ==
    /\ call_log = <<>>
    /\ \E draft \in ListingDrafts(dvariant, DetailHref), soup \in SoupOutcomes,
          g \in DetailPages(dvariant) :
         ScrapeProductDetails(DetailHref, draft, soup, g)

DetailNext == DetailCall

C23_DescriptionTruncatedToMax ==
    (call_log # <<>> /\ Last(call_log).ending = "enriched") =>
      /\ TextLen(product.product_description) <= 500
      /\ (page.desc = <<DescLong>> /\ TextLen(listing.product_description) = 0) =>
           product.product_description = Truncate(CleanText(DescLong), 500)

\* C21: during enrichment the name taken from the heading replaces a non-empty
\* listing name if and only if it is strictly longer than the listing name, so
\* the name after enrichment is never shorter than the name before it.
C21_NameOverride ==
    (call_log # <<>> /\ Last(call_log).ending = "enriched"
       /\ TextLen(listing.product_name) > 0) =>
      /\ product.product_name # listing.product_name =>
           /\ page.h1.present
           /\ product.product_name = CleanText(page.h1.text)
           /\ TextLen(product.product_name) > TextLen(listing.product_name)
      /\ (page.h1.present
            /\ TextLen(CleanText(page.h1.text)) > TextLen(listing.product_name)) =>
           product.product_name = CleanText(page.h1.text)
      /\ TextLen(product.product_name) >= TextLen(listing.product_name)

\* --- sequences of detail calls (the frontier) ---

\* A product of the listing stage for the link, the same for every variant.
LinkDraft(href) ==
    [NewProduct EXCEPT !.product_name = Text("Walnut Brownie", 14, 0, 0, 0),
                       !.product_page_url = UrlJoin(href)]

FrontierPages == {BlankPage, [BlankPage EXCEPT !.desc = <<DescValid>>, !.unit = "1 Kg"]}

FrontierCall ==
    /\ Len(call_log) < MaxCalls
    /\ \E href \in Hrefs, soup \in SoupOutcomes, g \in FrontierPages :
         ScrapeProductDetails(href, LinkDraft(href), soup, g)

FrontierNext == FrontierCall

\* C4: a URL is added to scraped_urls exactly once, by the first call whose
\* fetch returns content; every later call for that URL issues no fetch and
\* returns the product unchanged, whichever link the URL was resolved from.
C4_FrontierDedup ==
    /\ scraped_urls = { call_log[i].url : i \in { k \in DOMAIN call_log : call_log[k].marked } }
    /\ \A i \in DOMAIN call_log :
         call_log[i].marked <=> (call_log[i].fetched /\ call_log[i].ending \in {"enriched", "raised"})
    /\ \A i, j \in DOMAIN call_log :
         (i < j /\ call_log[i].url = call_log[j].url /\ call_log[i].marked) =>
            /\ ~call_log[j].marked
            /\ ~call_log[j].fetched
            /\ call_log[j].ending = "skipped"
    /\ (call_log # <<>> /\ Last(call_log).ending = "skipped") => product = listing

C4_Witness ==
    /\ Len(call_log) = 2
    /\ call_log[1].href = <<"in", "cakes", "..", "walnut-brownie">>
    /\ call_log[2].href = <<"in", "walnut-brownie">>
    /\ call_log[1].url = call_log[2].url
    /\ call_log[1].marked
    /\ call_log[2].ending = "skipped"
    /\ scraped_urls = {<<"in", "walnut-brownie">>}
    /\ product = listing

\* C16: the visited set only grows: a URL that is in scraped_urls stays in it
\* through every later call, whatever the call's draft and fetch outcome.
C16_VisitedMonotonic == [][scraped_urls \subseteq scraped_urls']_vars

\* Two URLs were marked, and the call after them (a skipped one, a failed
\* fetch or a duplicate) left both in the set.
C16_Witness ==
    /\ Len(call_log) = 3
    /\ Cardinality(scraped_urls) = 2
    /\ call_log[1].marked
    /\ call_log[2].marked
    /\ ~call_log[3].marked

(***************************************************************************)
(* The PERFECT scraper: extract_perfect_product_details and the loop of    *)
(* scrape_all_perfect_products.                                            *)
(***************************************************************************)
\* clean_text of HyperpurePerfectScraper: as CleanText, then every character
\* outside the kept class is removed, the doubled quotes among them
PerfectCleanText(t) == IF t.chars = 0 THEN EmptyText ELSE Text(t.id, t.chars, 0, 0, 0)

\* PerfectProduct(): the fields of NewProduct and two more specifications
NewPerfectProduct ==
    [thawing_instructions |-> EmptyText, cooking_instructions |-> EmptyText,
     category |-> ""] @@ NewProduct

\* The facts of a page, and per thawing pattern (in the order of
\* thawing_patterns) whether it matches and the text of its group.
NoMatch == [matches |-> FALSE, text |-> EmptyText]

Match(t) == [matches |-> TRUE, text |-> t]

PerfectBlankPage ==
    [thawing |-> <<NoMatch, NoMatch, NoMatch, NoMatch>>, cooking |-> <<>>] @@ BlankPage

\* The second pattern, r'Thaw\s+in[^.]+\.', has no group: match.group(1)
\* raises IndexError when it matches.
ThawingPatternHasGroup(k) == k # 2

\* 1-2. name from the <h1>, else from the <title>
PerfectName(p, g) ==
    LET h == IF g.h1.present
             THEN [p EXCEPT !.product_name = PerfectCleanText(g.h1.text)] ELSE p
    IN  IF TextLen(h.product_name) = 0 /\ g.title.present
        THEN [h EXCEPT !.product_name = PerfectCleanText(g.title.text)]
        ELSE h

PerfectDescription(p, g) ==
    LET i == FirstIn({ k \in DOMAIN g.desc : TextLen(PerfectCleanText(g.desc[k])) > 50 })
    IN  IF i = 0 THEN p
        ELSE [p EXCEPT !.product_description = Truncate(PerfectCleanText(g.desc[i]), 500)]

\* 3. the three price fields, whatever extract_perfect_price_info returns
PerfectPrice(p, g) == WithPrice(p, ThePriceInfo(PriceMatches("perfect", g.price_text)))

\* the storage_patterns and cooking_patterns loops: the first match whose
\* cleaned text is longer than 10
FirstLongerThan(cands, n) ==
    LET i == FirstIn({ k \in DOMAIN cands : TextLen(PerfectCleanText(cands[k])) > n })
    IN  IF i = 0 THEN EmptyText ELSE PerfectCleanText(cands[i])

\* the thawing_patterns loop from pattern k on: the first match is cleaned and,
\* if longer than 20, taken; a match of a pattern without a group raises
RECURSIVE ThawingFrom(_, _)
ThawingFrom(g, k) ==
    IF k > Len(g.thawing) THEN [raised |-> FALSE, text |-> EmptyText]
    ELSE IF ~g.thawing[k].matches THEN ThawingFrom(g, k + 1)
    ELSE IF ~ThawingPatternHasGroup(k) THEN [raised |-> TRUE, text |-> EmptyText]
    ELSE IF TextLen(PerfectCleanText(g.thawing[k].text)) > 20
      THEN [raised |-> FALSE, text |-> PerfectCleanText(g.thawing[k].text)]
    ELSE ThawingFrom(g, k + 1)

\* extract_perfect_specifications: the specs dict, and whether building it raised
PerfectSpecifications(g) ==
    [raised |-> ThawingFrom(g, 1).raised,
     storage_instructions |-> FirstLongerThan(g.storage, 10),
     thawing_instructions |-> ThawingFrom(g, 1).text,
     cooking_instructions |-> FirstLongerThan(g.cooking, 10)]

SpecificationFields ==
    {"storage_instructions", "thawing_instructions", "cooking_instructions"}

\* `if hasattr(product, key) and value: setattr(product, key, value)`
ApplySpecifications(p, specs) ==
    [f \in DOMAIN p |->
        IF f \in SpecificationFields /\ TextLen(specs[f]) > 0 THEN specs[f] ELSE p[f]]

\* 6. the unit in "<name> <description>" (page.unit), assigned when found
PerfectUnit(p, g) == IF g.unit # "" THEN [p EXCEPT !.unit_size = g.unit] ELSE p

\* 9. no breadcrumb element: the segment after 'in' of the URL
PerfectCategory(p) ==
    IF Len(p.product_page_url) >= 2 /\ p.product_page_url[1] = "in"
    THEN [p EXCEPT !.category = p.product_page_url[2]]
    ELSE p

\* 10. content tags: three keywords of the text, and the packaging class
PerfectTags(p, g) ==
    LET tags == (g.keywords \cap {"premium", "handcrafted", "imported"})
                \cup (IF p.packaging_type # "" THEN {p.packaging_type} ELSE {})
    IN  IF tags # {} THEN [p EXCEPT !.tags = tags] ELSE p

\* steps 1 to 4
PerfectBeforeSpecifications(url, g) ==
    ImageFromPage(PerfectPrice(PerfectDescription(PerfectName(
        [NewPerfectProduct EXCEPT !.product_page_url = url], g), g), g), g)

\* steps 6 to 10
PerfectAfterSpecifications(p, g) ==
    PerfectTags(PerfectCategory(SkuFromUrl(PackagingFromPage("perfect", PerfectUnit(p, g), g))), g)

\* The product built from steps 1 to 4, the given specs, and steps 6 to 10.
PerfectAssemble(url, g, specs) ==
    PerfectAfterSpecifications(
        ApplySpecifications(PerfectBeforeSpecifications(url, g), specs), g)

\* extract_perfect_product_details on a fetched page: the product, or None
\* when anything in the try block raised (`except Exception: return None`).
ExtractPerfectProductDetails(url, g) ==
    IF PerfectSpecifications(g).raised
    THEN [returned |-> FALSE, product |-> NewPerfectProduct]
    ELSE [returned |-> TRUE, product |-> PerfectAssemble(url, g, PerfectSpecifications(g))]

\* --- the inputs of the PERFECT loop ---

\* get_all_product_urls: list(all_product_urls), in any order
PerfectUrls == { <<"in", "frozen-chicken-nuggets">>, <<"in", "walnut-brownie">> }

PerfectUrlLists == Orderings(PerfectUrls)

\* labelled: the group of r'Thawing Instructions?:\s*(.+?)(?=...)';
\* sentence: r'Thaw\s+in[^.]+\.' matches (a sentence such as
\* 'Thaw in the refrigerator overnight.')
ThawingFacts ==
    { <<labelled, sentence, NoMatch, NoMatch>> :
        labelled \in {NoMatch, Match(Text("Thaw in fridge.", 15, 0, 0, 0)),
                      Match(Text("Thaw in the refrigerator overnight.", 35, 0, 0, 1))},
        sentence \in {NoMatch, Match(EmptyText)} }

PerfectPages ==
    { [PerfectBlankPage EXCEPT
          !.title = t,
          !.h1 = h, !.desc = <<DescValid>>, !.price_text = pt, !.image = "ok",
          !.storage = st, !.thawing = th, !.cooking = ck,
          !.keywords = {"frozen", "premium"}, !.unit = "1 Kg"] :
        t \in {NoElem, Elem(Text("Chicken Nuggets Online", 22, 0, 0, 0))},
        h \in {NoElem, Elem(Text("Chicken Nuggets 1 Kg", 20, 0, 0, 2))},
        pt \in PagePriceTexts,
        st \in {<<>>, <<Text("Store at -18 C or below", 23, 0, 0, 0)>>},
        th \in ThawingFacts,
        ck \in {<<>>, <<Text("Deep fry at 180 C for 3 minutes", 31, 0, 0, 0)>>} }

PerfectInit ==
    /\ product_urls \in PerfectUrlLists
    /\ next_url = 1
    /\ perfect_products = <<>>
    /\ perfect_log = <<>>

\* Not the code's: a driver that appends whatever came back, kept to show that
\* the claim about names depends on the test before the append.
AnyProduct(p) == TRUE

\* `perfect_product.product_name` as a condition: the name is not ''
IsNamed(p) == TextLen(p.product_name) > 0

\* One iteration of the loop of scrape_all_perfect_products: fetch the page
\* (safe_request returns a soup or None), extract, and append the product if
\* one came back with a name.  perfect_log keeps, per iteration, the URL, the
\* page if one was fetched, and how the iteration ended.
ProcessProductUrl(soup, g) ==
    LET url == product_urls[next_url]
        result == ExtractPerfectProductDetails(url, g)
        entry(pg, ending) == [url |-> url, page |-> pg, ending |-> ending]
    IN
    /\ next_url <= Len(product_urls)
    /\ next_url' = next_url + 1
    /\ UNCHANGED product_urls
    /\ PerfectFrame
    /\ IF soup = "None"
       THEN /\ perfect_log' = Append(perfect_log, entry(PerfectBlankPage, "unfetched"))
            /\ UNCHANGED perfect_products
       ELSE IF ~result.returned
       THEN /\ perfect_log' = Append(perfect_log, entry(g, "raised"))
            /\ UNCHANGED perfect_products
       ELSE IF ~IsNamed(result.product)
       THEN /\ perfect_log' = Append(perfect_log, entry(g, "unnamed"))
            /\ UNCHANGED perfect_products
       ELSE /\ perfect_log' = Append(perfect_log, entry(g, "added"))
            /\ perfect_products' = Append(perfect_products, result.product)

PerfectNext == \E soup \in {"content", "None"}, g \in PerfectPages : ProcessProductUrl(soup, g)

\* The product of a page with the thawing specification left out: what the
\* sibling fields hold when the failure of that one field is contained.
WithoutThawing(url, g) ==
    PerfectAssemble(url, g, [PerfectSpecifications(g) EXCEPT !.thawing_instructions = EmptyText])

\* C10: when the extraction of one field of an entry raises, the entry is
\* still emitted with every sibling field extracted, and the entries after
\* it are still processed.
C10_FailureContainment ==
    \A i \in DOMAIN perfect_log :
      perfect_log[i].ending = "raised" =>
        /\ next_url = Len(perfect_log) + 1
        /\ TextLen(WithoutThawing(perfect_log[i].url, perfect_log[i].page).product_name) > 0 =>
             \E j \in DOMAIN perfect_products :
               /\ perfect_products[j].product_page_url = perfect_log[i].url
               /\ \A f \in DOMAIN NewPerfectProduct \ {"thawing_instructions"} :
                    perfect_products[j][f] =
                       WithoutThawing(perfect_log[i].url, perfect_log[i].page)[f]

\* C15: every entry of the accumulated output has a non-empty name; a page
\* that gives a name neither in its <h1> nor in its <title> adds no entry.
C15_EntriesAreNamed ==
    /\ \A i \in DOMAIN perfect_products : TextLen(perfect_products[i].product_name) > 0
    /\ \A k \in DOMAIN perfect_log :
         (perfect_log[k].ending = "added") <=>
           /\ perfect_log[k].ending \notin {"unfetched", "raised"}
           /\ perfect_log[k].page.h1.present \/ perfect_log[k].page.title.present

\* A run that dropped a nameless product and then added a named one.
C15_Witness ==
    \E k, m \in DOMAIN perfect_log :
      /\ k < m
      /\ perfect_log[k].ending = "unnamed"
      /\ ~perfect_log[k].page.h1.present
      /\ ~perfect_log[k].page.title.present
      /\ perfect_log[m].ending = "added"
      /\ Len(perfect_products) = 1

(***************************************************************************)
(* The comprehensive run: scrape_all_products and main.                    *)
(*                                                                         *)
(* A product is held by its name, URL and category, and by whether the     *)
(* detail stage enriched it.                                               *)
(***************************************************************************)
\* self.category_urls, cut to two categories (slugs; each is '/in/<slug>')
CategoryUrls == <<"cheese", "butter">>

\* category_map of get_category_name_from_url
CategoryNameOf(slug) ==
    CASE slug = "cheese" -> "Cheese"
      [] slug = "butter" -> "Butter"

\* `max_details = min(5, len(category_products))`
DetailsPerCategory == 5

MaxDetails(cp) == IF Len(cp) < DetailsPerCategory THEN Len(cp) ELSE DetailsPerCategory

\* An <a href> of a category page: its text and the segments of its href.
Link(t, href) == [text |-> t, href |-> href]

SkipSegments == {"Menu-Addons", "categories", "search", "cart", "login", "register"}

\* the test on href in extract_products_from_page
HrefIsProduct(href, slug) ==
    /\ Len(href) >= 2
    /\ href[1] = "in"
    /\ Range(href) \cap SkipSegments = {}
    /\ href # <<"in", slug>>

\* the test on the cleaned link text: non-empty and longer than 5 (the model's
\* link texts hold letters and none of the skipped words)
NameIsProduct(n) == TextLen(n) > 5

\* product_links after list(set(product_links)): the distinct (name, url)
\* pairs, in any order
ProductLinks(links, slug) ==
    Orderings({ <<CleanText(links[i].text), UrlJoin(links[i].href)>> :
                  i \in { k \in DOMAIN links :
                            /\ HrefIsProduct(links[k].href, slug)
                            /\ NameIsProduct(CleanText(links[k].text)) } })

\* The lists of products extract_products_from_page can return.
ExtractProductsFromPage(links, slug) ==
    { [i \in DOMAIN pl |->
         [product_name |-> pl[i][1], product_page_url |-> pl[i][2],
          category |-> CategoryNameOf(slug), detailed |-> FALSE]] :
      pl \in ProductLinks(links, slug) }

AmulButter == Link(Text("Amul Butter 500 g", 17, 0, 0, 0), <<"in", "amul-butter-500g">>)

\* the same product under another link text
AmulButterOffer == Link(Text("Amul Butter Offer", 17, 0, 0, 2), <<"in", "amul-butter-500g">>)

\* the same product through another relative path
AmulButterViaDairy ==
    Link(Text("Amul Butter 500 g", 17, 0, 1, 0), <<"in", "dairy", "..", "amul-butter-500g">>)

CheeseSlice == Link(Text("Cheese Slices 200 g", 19, 0, 0, 0), <<"in", "cheese-slices">>)

\* links the tests drop: a short text, and a skipped href
ShortLink == Link(Text("Ghee", 4, 0, 0, 0), <<"in", "ghee-1l">>)

CartLink == Link(Text("View your cart", 14, 0, 0, 0), <<"in", "cart">>)

\* The link lists of the category pages of the model.
CategoryPageLinks ==
    { <<>>, <<AmulButter>>, <<AmulButter, AmulButter>>, <<AmulButter, AmulButterOffer>>,
      <<AmulButter, AmulButterViaDairy>>, <<AmulButter, CheeseSlice>>,
      <<ShortLink, CartLink>> }

NoCsv == [written |-> FALSE, rows |-> <<>>]

Csv(rows) == [written |-> TRUE, rows |-> rows]

RunInit ==
    /\ rpc = "category"
    /\ category_idx = 1
    /\ all_products = <<>>
    /\ category_products = <<>>
    /\ detail_idx = 1
    /\ products = <<>>
    /\ run_scraped_urls = {}
    /\ normal_csv = NoCsv
    /\ partial_csv = NoCsv
    /\ interrupted = FALSE
    /\ assembled = <<>>
    /\ fetch_log = <<>>

RunFiles == <<normal_csv, partial_csv>>

RunHistory == <<interrupted, assembled>>

\* One call of safe_request by the driver, as fetch_log records it: the
\* category being processed, the URL asked for, and what came back.
Fetched(idx, url, soup) == [category |-> idx, url |-> url, soup |-> soup]

\* Not the code's: a `break` in the place of the `continue`, kept to show that
\* the claim about an exhausted fetch depends on the `continue`.
EndOfCategories(idx) == Len(CategoryUrls) + 1

\* `if not soup: continue`: the loop goes on with the next category
NextCategory(idx) == idx + 1

\* The head of the category loop: fetch the category page and list its
\* products.  No soup, or an exception (`except Exception`), goes on to the
\* next category.
ProcessCategory(soup, links) ==
    /\ rpc = "category"
    /\ category_idx <= Len(CategoryUrls)
    /\ IF soup = "content"
       THEN /\ category_products' \in ExtractProductsFromPage(links, CategoryUrls[category_idx])
            /\ detail_idx' = 1
            /\ rpc' = "details"
            /\ UNCHANGED category_idx
       ELSE /\ category_idx' = NextCategory(category_idx)
            /\ UNCHANGED <<category_products, detail_idx, rpc>>
    /\ fetch_log' = Append(fetch_log, Fetched(category_idx,
                                               <<"in", CategoryUrls[category_idx]>>, soup))
    /\ UNCHANGED <<all_products, products, run_scraped_urls, RunFiles, RunHistory>>
    /\ RunFrame

\* One iteration of the detail loop: scrape_product_details on the next of the
\* first max_details products, and all_products.append.  An exception that
\* leaves safe_request ends the category in its `except Exception`.
DetailProduct(soup) ==
    LET p == category_products[detail_idx] IN
    /\ rpc = "details"
    /\ detail_idx <= MaxDetails(category_products)
    /\ IF SkipsFetch(p, run_scraped_urls) \/ soup = "None"
       THEN /\ all_products' = Append(all_products, p)
            /\ detail_idx' = detail_idx + 1
            /\ UNCHANGED <<run_scraped_urls, category_idx, category_products, rpc>>
       ELSE IF soup = "escape"
       THEN /\ category_idx' = category_idx + 1
            /\ category_products' = <<>>
            /\ detail_idx' = 1
            /\ rpc' = "category"
            /\ UNCHANGED <<all_products, run_scraped_urls>>
       ELSE /\ run_scraped_urls' = MarkScraped(run_scraped_urls, p.product_page_url)
            /\ all_products' = Append(all_products, [p EXCEPT !.detailed = TRUE])
            /\ detail_idx' = detail_idx + 1
            /\ UNCHANGED <<category_idx, category_products, rpc>>
    /\ fetch_log' = IF SkipsFetch(p, run_scraped_urls)
                    THEN fetch_log
                    ELSE Append(fetch_log, Fetched(category_idx, p.product_page_url, soup))
    /\ UNCHANGED <<products, RunFiles, RunHistory>>
    /\ RunFrame

\* The end of a category: the products after the first max_details are
\* appended as they are.
FinishCategory ==
    /\ rpc = "details"
    /\ detail_idx > MaxDetails(category_products)
    /\ all_products' = all_products \o SubSeq(category_products,
                                               MaxDetails(category_products) + 1,
                                               Len(category_products))
    /\ category_idx' = category_idx + 1
    /\ category_products' = <<>>
    /\ detail_idx' = 1
    /\ rpc' = "category"
    /\ UNCHANGED <<products, run_scraped_urls, RunFiles, RunHistory>>
    /\ UNCHANGED fetch_log
    /\ RunFrame

\* After the last category: `self.products = all_products; return self.products`
ReturnProducts ==
    /\ rpc = "category"
    /\ category_idx > Len(CategoryUrls)
    /\ products' = all_products
    /\ rpc' = "returned"
    /\ UNCHANGED <<category_idx, all_products, category_products, detail_idx,
                   run_scraped_urls, RunFiles, RunHistory>>
    /\ UNCHANGED fetch_log
    /\ RunFrame

\* main after scrape_all_products returned: `if products: scraper.save_to_csv(filename)`
SaveToCsv ==
    /\ rpc = "returned"
    /\ normal_csv' = IF products # <<>> THEN Csv(products) ELSE normal_csv
    /\ rpc' = "exited"
    /\ UNCHANGED <<category_idx, all_products, category_products, detail_idx, products,
                   run_scraped_urls, partial_csv, RunHistory>>
    /\ UNCHANGED fetch_log
    /\ RunFrame

\* The operator's Ctrl-C while scrape_all_products runs or has just returned:
\* KeyboardInterrupt is no Exception, so it passes every handler up to main's.
\* assembled keeps what all_products held at that moment.
KeyboardInterrupt ==
    /\ rpc \in {"category", "details", "returned"}
    /\ rpc' = "interrupted"
    /\ interrupted' = TRUE
    /\ assembled' = all_products
    /\ UNCHANGED <<category_idx, all_products, category_products, detail_idx, products,
                   run_scraped_urls, RunFiles>>
    /\ UNCHANGED fetch_log
    /\ RunFrame

\* main's `except KeyboardInterrupt:` `if scraper.products:` save to the
\* '..._partial_<timestamp>.csv' file
SavePartial ==
    /\ rpc = "interrupted"
    /\ partial_csv' = IF products # <<>> THEN Csv(products) ELSE partial_csv
    /\ rpc' = "exited"
    /\ UNCHANGED <<category_idx, all_products, category_products, detail_idx, products,
                   run_scraped_urls, normal_csv, RunHistory>>
    /\ UNCHANGED fetch_log
    /\ RunFrame

RunNext ==
    \/ \E soup \in SoupOutcomes, links \in CategoryPageLinks : ProcessCategory(soup, links)
    \/ \E soup \in SoupOutcomes : DetailProduct(soup)
    \/ FinishCategory
    \/ ReturnProducts
    \/ SaveToCsv
    \/ KeyboardInterrupt
    \/ SavePartial

\* The steps the interpreter takes by itself: everything but the operator's
\* Ctrl-C.  The run is one thread, so a step that is possible is taken.
RunProgram ==
    \/ \E soup \in SoupOutcomes, links \in CategoryPageLinks : ProcessCategory(soup, links)
    \/ \E soup \in SoupOutcomes : DetailProduct(soup)
    \/ FinishCategory
    \/ ReturnProducts
    \/ SaveToCsv
    \/ SavePartial

\* C28: for a category whose page was fetched with n candidates, detail
\* fetches are issued only for the first min(5, n) candidates, and when the
\* driver leaves the category exactly n entries have been appended for it,
\* whatever each detail fetch gave.
C28_EveryCandidateEmitted ==
    [][rpc = "details" =>
         /\ fetch_log' # fetch_log => detail_idx <= MaxDetails(category_products)
         /\ rpc' = "category" =>
              Len(all_products') =
                Len(all_products) - (detail_idx - 1) + Len(category_products)]_vars

\* C3: an interrupt that arrives after N entries have been assembled leaves
\* exactly those N entries, in order, in the partial output, which is not the
\* normal output; no entry is lost for being held in a local list.
C3_PartialFlush ==
    (rpc = "exited" /\ interrupted /\ assembled # <<>>) =>
      /\ partial_csv = Csv(assembled)
      /\ ~normal_csv.written

\* C5: in scraper.products every entry has a non-empty source URL and no two
\* entries have the same source URL.
C5_UniqueSourceUrl ==
    /\ \A i \in DOMAIN products : products[i].product_page_url # NoUrl
    /\ \A i, j \in DOMAIN products :
         products[i].product_page_url = products[j].product_page_url => i = j

IsPrefix(a, b) == Len(a) <= Len(b) /\ SubSeq(b, 1, Len(a)) = a

IsCategoryFetch(f) == f.url = <<"in", CategoryUrls[f.category]>>

\* A step in which safe_request came back with None after its last attempt.
ExhaustedFetch == fetch_log' # fetch_log /\ Last(fetch_log').soup = "None"

\* C11: an exhausted fetch is not fatal.  The step that meets it keeps every
\* entry collected so far and goes on with the very next category (for a
\* category page) or the very next candidate of the same category (for a detail
\* page, whose draft is appended as it is); a run that ends without a Ctrl-C
\* has asked for every category page; and under the interpreter's scheduling
\* every run reaches its end.
C11_ExhaustedFetchNonFatal ==
    /\ [][ExhaustedFetch =>
            /\ IsPrefix(all_products, all_products')
            /\ IF rpc = "category"
               THEN /\ rpc' = "category"
                    /\ category_idx' = category_idx + 1
               ELSE /\ rpc' = "details"
                    /\ category_idx' = category_idx
                    /\ category_products' = category_products
                    /\ detail_idx' = detail_idx + 1
                    /\ all_products' = Append(all_products, category_products[detail_idx])]_vars
    /\ []((rpc = "exited" /\ ~interrupted) =>
            \A i \in DOMAIN CategoryUrls :
              \E k \in DOMAIN fetch_log :
                IsCategoryFetch(fetch_log[k]) /\ fetch_log[k].category = i)
    /\ <>(rpc = "exited")

\* A finished run whose first category page and one detail page were exhausted,
\* and which fetched a later detail page and wrote its entries.
C11_Witness ==
    /\ rpc = "exited"
    /\ ~interrupted
    /\ normal_csv.written
    /\ \E k \in DOMAIN fetch_log :
         /\ fetch_log[k].category = 1
         /\ IsCategoryFetch(fetch_log[k])
         /\ fetch_log[k].soup = "None"
    /\ \E k, m \in DOMAIN fetch_log :
         /\ k < m
         /\ ~IsCategoryFetch(fetch_log[k])
         /\ fetch_log[k].soup = "None"
         /\ ~IsCategoryFetch(fetch_log[m])
         /\ fetch_log[m].soup = "content"

\* C12: the one fetch failure that ends a run is that of the very first seed
\* page, and then nothing more is fetched, no entry is returned and no file is
\* written; after a first seed page that was fetched, no failed fetch ends the
\* run: a run that ended without a Ctrl-C went through every category.
C12_OnlyFirstSeedFatal ==
    /\ (fetch_log # <<>> /\ fetch_log[1].soup = "None") =>
         /\ Len(fetch_log) = 1
         /\ all_products = <<>>
         /\ products = <<>>
         /\ ~normal_csv.written
         /\ ~partial_csv.written
    /\ (fetch_log # <<>> /\ fetch_log[1].soup = "content"
          /\ rpc \in {"returned", "exited"} /\ ~interrupted) =>
         category_idx > Len(CategoryUrls)

\* C13: once the Ctrl-C has been raised no further fetch is started; a run
\* interrupted with at least one entry accumulated has written the partial
\* file when it exits; and the interrupted run does exit.
C13_CancellationOrdering ==
    /\ [][interrupted => fetch_log' = fetch_log]_vars
    /\ []((rpc = "exited" /\ interrupted /\ assembled # <<>>) => partial_csv.written)
    /\ (interrupted ~> (rpc = "exited"))

(***************************************************************************)
(* The price fields of an entry through the stages that write them:        *)
(* comprehensive extract_products_from_page and scrape_product_details,    *)
(* enhanced extract_product_from_listing and scrape_product_details.       *)
(***************************************************************************)
MaxPriceElems == 2

EntryVariants == {"comprehensive", "enhanced"}

Glyph(a) == [kind |-> "glyph", amount |-> a]

\* The texts of the stages: up to two rupee amounts.
EntryTexts == SeqsUpTo({Glyph(199), Glyph(249)}, 2)

ShortTexts == SeqsUpTo({Glyph(199), Glyph(249)}, 1)

NoStrike == [present |-> FALSE, text |-> <<>>]

Strike(text) == [present |-> TRUE, text |-> text]

\* An element a price selector matches: the text before its <s>/<del>/<strike>
\* child, the child if it has one, and the text after it.
PriceElems ==
    [before : ShortTexts, strike : {NoStrike} \cup { Strike(t) : t \in ShortTexts },
     after : ShortTexts]

\* element.get_text(): the strings of the element and of its descendants, in
\* document order
ElemText(e) == e.before \o e.strike.text \o e.after

\* A listing element: the text before the elements its price selectors match,
\* those elements in the order of price_selectors, and the rest of its text.
ProductElements ==
    [lead : ShortTexts, price_elems : SeqsUpTo(PriceElems, MaxPriceElems),
     rest : ShortTexts]

NoProductElement == [lead |-> <<>>, price_elems |-> <<>>, rest |-> <<>>]

RECURSIVE ConcatElemTexts(_)
ConcatElemTexts(es) ==
    IF es = <<>> THEN <<>> ELSE ElemText(Head(es)) \o ConcatElemTexts(Tail(es))

\* product_element.get_text()
ProductElementText(pe) == pe.lead \o ConcatElemTexts(pe.price_elems) \o pe.rest

\* extract_price_info(element) of the enhanced script: the current price is the
\* first amount of the element's text, the original price the first amount of
\* its strikethrough child, the discount is computed when original > current.
ElementPriceInfo(e) ==
    LET cm == GlyphMatches(ElemText(e))
        om == IF e.strike.present THEN GlyphMatches(e.strike.text) ELSE <<>>
        c  == IF cm # <<>> THEN Val(cm[1]) ELSE Unset
        o  == IF om # <<>> THEN Val(om[1]) ELSE Unset
    IN  IF c.set /\ o.set /\ o.v > c.v
        THEN { [current |-> c, original |-> o, discount |-> Val(d)] :
                 d \in DiscountTenths(c.v, o.v) }
        ELSE { [current |-> c, original |-> o, discount |-> Unset] }

\* Not the code's: a fallback that runs whether or not a price was found, kept
\* to show that the claim about the discount depends on the fallback's test.
FallbackAlways(x) == TRUE

\* `if not product.price_current:` before the search in the element's text
FallbackApplies(x) == ~x.current.set

\* The fallback: price_current from the first amount of the element's text;
\* the other two fields are left as they are.
ListingPriceFallback(x, text) ==
    IF FallbackApplies(x) /\ GlyphMatches(text) # <<>>
    THEN [x EXCEPT !.current = Val(GlyphMatches(text)[1])]
    ELSE x

EntryInit ==
    /\ evariant \in EntryVariants
    /\ estage = "draft"
    /\ eprice = NoPrice
    /\ selector_idx = 1
    /\ IF evariant = "enhanced"
       THEN /\ product_element \in ProductElements
            /\ listing_text = <<>>
            /\ detail_text = <<>>
       ELSE /\ product_element = NoProductElement
            /\ listing_text \in EntryTexts
            /\ detail_text \in EntryTexts

EntryInputs == <<evariant, product_element, listing_text, detail_text>>

\* comprehensive extract_products_from_page: the three fields from the text
\* around the product's name, when the name is found in the page text.
ComprehensiveListing(found) ==
    /\ evariant = "comprehensive"
    /\ estage = "draft"
    /\ eprice' \in IF found THEN PriceInfo(GlyphMatches(listing_text)) ELSE {eprice}
    /\ estage' = "listed"
    /\ UNCHANGED <<EntryInputs, selector_idx>>
    /\ EntryFrame

\* comprehensive scrape_product_details: with a page, `if not
\* product.price_current:` the three fields from the page text.
ComprehensiveEnrich(soup) ==
    /\ evariant = "comprehensive"
    /\ estage = "listed"
    /\ eprice' \in IF soup = "content" /\ ~eprice.current.set
                   THEN PriceInfo(GlyphMatches(detail_text))
                   ELSE {eprice}
    /\ estage' = "detailed"
    /\ UNCHANGED <<EntryInputs, selector_idx>>
    /\ EntryFrame

\* enhanced extract_product_from_listing: one iteration of the loop over
\* price_selectors, which assigns the three fields and breaks once
\* price_current is set.
SelectPrice ==
    /\ evariant = "enhanced"
    /\ estage = "draft"
    /\ IF selector_idx <= Len(product_element.price_elems)
       THEN /\ eprice' \in ElementPriceInfo(product_element.price_elems[selector_idx])
            /\ IF eprice'.current.set
               THEN estage' = "selected" /\ UNCHANGED selector_idx
               ELSE selector_idx' = selector_idx + 1 /\ UNCHANGED estage
       ELSE /\ estage' = "selected"
            /\ UNCHANGED <<eprice, selector_idx>>
    /\ UNCHANGED EntryInputs
    /\ EntryFrame

\* enhanced extract_product_from_listing: the search in the element's text.
PriceFallback ==
    /\ evariant = "enhanced"
    /\ estage = "selected"
    /\ eprice' = ListingPriceFallback(eprice, ProductElementText(product_element))
    /\ estage' = "listed"
    /\ UNCHANGED <<EntryInputs, selector_idx>>
    /\ EntryFrame

\* enhanced scrape_product_details: no statement writes a price field.
EnhancedEnrich ==
    /\ evariant = "enhanced"
    /\ estage = "listed"
    /\ estage' = "detailed"
    /\ UNCHANGED <<EntryInputs, selector_idx, eprice>>
    /\ EntryFrame

EntryNext ==
    \/ \E found \in BOOLEAN : ComprehensiveListing(found)
    \/ \E soup \in {"content", "None"} : ComprehensiveEnrich(soup)
    \/ SelectPrice
    \/ PriceFallback
    \/ EnhancedEnrich

\* C17: at every point, a discount that is set comes with a current and an
\* original price that are set, the original above the current, and is the
\* percentage of exactly that pair rounded to one decimal; no stage sets or
\* keeps another.
C17_DiscountMatchesPair ==
    eprice.discount.set =>
      /\ eprice.current.set
      /\ eprice.original.set
      /\ eprice.original.v > eprice.current.v
      /\ IsRoundedDiscount(eprice.discount.v, eprice.current.v, eprice.original.v)

\* An enhanced entry whose second selector gave 199 / 249 / 20.1% and which
\* went through the fallback and the detail stage.
C17_Witness ==
    /\ evariant = "enhanced"
    /\ estage = "detailed"
    /\ selector_idx = 2
    /\ eprice = [current |-> Val(199), original |-> Val(249), discount |-> Val(201)]

\* The element whose prices the entry holds: the one the selector loop
\* stopped at.
SelectedPriceElem == product_element.price_elems[selector_idx]

\* C26: when the price element holds a struck-through amount S and a different
\* amount C that is not struck through, extract_price_info gives current = C
\* and original = S, whichever of the two comes first in the element's text;
\* the struck-through amount is never reported as the current price.
C26_StruckAmountIsOriginal ==
    (evariant = "enhanced" /\ estage # "draft"
       /\ selector_idx <= Len(product_element.price_elems)) =>
      \A S, C \in {199, 249} :
        (S # C /\ SelectedPriceElem.strike.present
           /\ SelectedPriceElem.strike.text = <<Glyph(S)>>
           /\ SelectedPriceElem.before \o SelectedPriceElem.after = <<Glyph(C)>>) =>
          /\ eprice.current = Val(C)
          /\ eprice.original = Val(S)

(***************************************************************************)
(* The tag list: comprehensive scrape_product_details, the listing stage   *)
(* of scripts/hyperpure_scraper.py, and PERFECT step 10.                   *)
(***************************************************************************)
MaxBadges == 2

MaxPageKeywords == 2

TagVariants == {"comprehensive", "listing", "perfect"}

\* feature_keywords (comprehensive), in the order of the list
FeatureKeywordList ==
    <<"premium", "imported", "handcrafted", "frozen", "fresh", "organic", "natural",
      "quality">>

\* the keywords of the content analysis (PERFECT), in the order of the tests
ContentKeywordList == <<"premium", "handcrafted", "imported">>

\* keyword.title(), and the literals 'Premium', 'Handcrafted', 'Imported'
KeywordTag(k) ==
    CASE k = "premium" -> Text("Premium", 7, 0, 0, 0)
      [] k = "imported" -> Text("Imported", 8, 0, 0, 0)
      [] k = "handcrafted" -> Text("Handcrafted", 11, 0, 0, 0)
      [] k = "frozen" -> Text("Frozen", 6, 0, 0, 0)
      [] k = "fresh" -> Text("Fresh", 5, 0, 0, 0)
      [] k = "organic" -> Text("Organic", 7, 0, 0, 0)
      [] k = "natural" -> Text("Natural", 7, 0, 0, 0)
      [] k = "quality" -> Text("Quality", 7, 0, 0, 0)

\* The tags of the keywords of vocabulary that are in present, in the order
\* of vocabulary.
RECURSIVE KeywordTags(_, _)
KeywordTags(vocabulary, present) ==
    IF vocabulary = <<>> THEN <<>>
    ELSE (IF Head(vocabulary) \in present THEN <<KeywordTag(Head(vocabulary))>> ELSE <<>>)
           \o KeywordTags(Tail(vocabulary), present)

\* A badge element: an <img> (its alt is taken as it is) or another tag (its
\* text is cleaned).
Badge(img, text) == [img |-> img, text |-> text]

BadgeElems ==
    { Badge(FALSE, Text("Veg", 3, 0, 0, 0)), Badge(FALSE, Text("Veg", 3, 0, 0, 2)),
      Badge(FALSE, Text("Premium", 7, 0, 0, 0)), Badge(FALSE, Text("", 0, 0, 0, 1)),
      Badge(TRUE, Text("Veg", 3, 0, 0, 0)) }

\* tags of the listing stage: every badge with a non-blank text, cleaned
RECURSIVE ListingTags(_)
ListingTags(bs) ==
    IF bs = <<>> THEN <<>>
    ELSE (IF Strip(Head(bs).text) # EmptyText THEN <<CleanText(Head(bs).text)>> ELSE <<>>)
           \o ListingTags(Tail(bs))

\* tag_text of a badge in the PERFECT loop
BadgeTagText(b) == IF b.img THEN b.text ELSE PerfectCleanText(b.text)

\* The PERFECT badge loop: `if tag_text and len(tag_text) > 2 and tag_text not
\* in tags: tags.append(tag_text)`
RECURSIVE PerfectBadgeTags(_, _)
PerfectBadgeTags(bs, tags) ==
    IF bs = <<>> THEN tags
    ELSE LET t == BadgeTagText(Head(bs))
         IN  PerfectBadgeTags(Tail(bs),
                              IF TextLen(t) > 2 /\ t \notin Range(tags)
                              THEN Append(tags, t) ELSE tags)

\* content_tags of PERFECT: the three keywords, then product.packaging_type
ContentTags(present, packaging) ==
    KeywordTags(ContentKeywordList, present)
      \o (IF packaging # "" THEN <<KeywordTag(packaging)>> ELSE <<>>)

\* The tag lists a variant can build.  comprehensive: list(set(tags)) lists the
\* distinct tags in the order of the set's iteration, which the hashes of the
\* strings fix anew in every run.  perfect: `tags.extend([tag for tag in
\* content_tags if tag not in tags])`.
TagLists(v, bs, present, packaging) ==
    CASE v = "comprehensive" -> Orderings(Range(KeywordTags(FeatureKeywordList, present)))
      [] v = "listing" -> {ListingTags(bs)}
      [] v = "perfect" ->
           LET tags == PerfectBadgeTags(bs, <<>>)
           IN  {tags \o SelectSeq(ContentTags(present, packaging),
                                  LAMBDA t : t \notin Range(tags))}

TagsInit ==
    /\ tvariant \in TagVariants
    /\ badges \in IF tvariant = "comprehensive" THEN {<<>>}
                  ELSE SeqsUpTo(BadgeElems, MaxBadges)
    /\ page_keywords \in
         CASE tvariant = "comprehensive" ->
                { ks \in SUBSET Range(FeatureKeywordList) : Cardinality(ks) <= MaxPageKeywords }
           [] tvariant = "listing" -> {{}}
           [] tvariant = "perfect" -> SUBSET Range(ContentKeywordList)
    /\ tag_packaging \in IF tvariant = "perfect" THEN {"", "frozen"} ELSE {""}
    /\ tag_list = <<>>
    /\ tpc = "call"

\* The tag step of one entry.
BuildTags ==
    /\ tpc = "call"
    /\ tag_list' \in TagLists(tvariant, badges, page_keywords, tag_packaging)
    /\ tpc' = "done"
    /\ UNCHANGED <<tvariant, badges, page_keywords, tag_packaging>>
    /\ TagsFrame

TagsNext == BuildTags

\* What each source detects, in its order: the badges with a tag text, in
\* the order they are met, and the keywords, in vocabulary order.
DetectedBadges ==
    CASE tvariant = "comprehensive" -> <<>>
      [] tvariant = "listing" -> ListingTags(badges)
      [] tvariant = "perfect" ->
           SelectSeq([i \in DOMAIN badges |-> BadgeTagText(badges[i])],
                     LAMBDA t : TextLen(t) > 2)

DetectedKeywords ==
    CASE tvariant = "comprehensive" -> KeywordTags(FeatureKeywordList, page_keywords)
      [] tvariant = "listing" -> <<>>
      [] tvariant = "perfect" -> ContentTags(page_keywords, tag_packaging)

\* C18: the tag list holds no string twice and lists the tags in the order of
\* first detection: the badges in document order, then the keywords in
\* vocabulary order; a tag both sources found appears once.
C18_TagsUniqueInDetectionOrder ==
    tpc = "done" =>
      /\ \A i, j \in DOMAIN tag_list : tag_list[i] = tag_list[j] => i = j
      /\ tag_list = Dedup(DetectedBadges \o DetectedKeywords)

(***************************************************************************)
(* The capture time: where each script reads datetime.now() for            *)
(* scraped_timestamp, relative to the detail fetch and the enrichment.     *)
(***************************************************************************)
MaxEntries == 2

MaxFetchTicks == 2

StampVariants == {"comprehensive", "detailed", "perfect"}

\* A draft: the time stored in scraped_timestamp, and for the model the times
\* at which its detail fetch returned a page and at which its enrichment
\* ended (0: not yet, or never).
Draft(stamp, fetched_at, enriched_at) ==
    [scraped_timestamp |-> stamp, fetched_at |-> fetched_at, enriched_at |-> enriched_at]

NoDraft == Draft(0, 0, 0)

\* `product.scraped_timestamp = datetime.now().isoformat()`
Stamped(d, now) == [d EXCEPT !.scraped_timestamp = now]

StampInit ==
    /\ cvariant \in StampVariants
    /\ entry_count \in 1..MaxEntries
    /\ clock = 1
    /\ cpc = IF cvariant = "comprehensive" THEN "listing" ELSE "fetch"
    /\ entry_idx = 1
    /\ drafts = [i \in 1..entry_count |-> NoDraft]
    /\ emitted = <<>>

\* The step to the next product, or the end of the run.
NextEntry(first) ==
    IF entry_idx < entry_count
    THEN entry_idx' = entry_idx + 1 /\ cpc' = first
    ELSE entry_idx' = entry_idx /\ cpc' = "done"

\* comprehensive extract_products_from_page: the draft of the next link of the
\* category page, stamped as it is created; the detail loop starts after the
\* last one.
CreateListingDraft ==
    /\ cvariant = "comprehensive"
    /\ cpc = "listing"
    /\ drafts' = [drafts EXCEPT ![entry_idx] = Stamped(@, clock)]
    /\ clock' = clock + 1
    /\ IF entry_idx < entry_count
       THEN entry_idx' = entry_idx + 1 /\ UNCHANGED cpc
       ELSE entry_idx' = 1 /\ cpc' = "fetch"
    /\ UNCHANGED <<cvariant, entry_count, emitted>>
    /\ StampFrame

\* The detail fetch of the product, which takes ticks of sleeping and waiting.
\* detailed stamps the draft before it (scrape_all_detailed_products);
\* perfect stamps it after a page came back (extract_perfect_product_details)
\* and drops the product when none did; comprehensive appends the draft as it
\* is when none did.
DetailFetch(soup, ticks) ==
    LET before == IF cvariant = "detailed"
                  THEN Stamped(drafts[entry_idx], clock) ELSE drafts[entry_idx]
        back   == clock + ticks
    IN
    /\ cpc = "fetch"
    /\ clock' = back + 2
    /\ IF soup = "content"
       THEN /\ drafts' = [drafts EXCEPT ![entry_idx] =
                            IF cvariant = "perfect"
                            THEN Stamped([before EXCEPT !.fetched_at = back], back + 1)
                            ELSE [before EXCEPT !.fetched_at = back]]
            /\ cpc' = "enrich"
            /\ UNCHANGED <<entry_idx, emitted>>
       ELSE /\ drafts' = [drafts EXCEPT ![entry_idx] = before]
            /\ IF cvariant = "perfect"
               THEN NextEntry("fetch") /\ UNCHANGED emitted
               ELSE cpc' = "append" /\ UNCHANGED <<entry_idx, emitted>>
    /\ UNCHANGED <<cvariant, entry_count>>
    /\ StampFrame

\* The extraction of the fields from the detail page; no script reads the
\* time in it.
Enrich ==
    /\ cpc = "enrich"
    /\ drafts' = [drafts EXCEPT ![entry_idx].enriched_at = clock]
    /\ clock' = clock + 1
    /\ cpc' = "append"
    /\ UNCHANGED <<cvariant, entry_count, entry_idx, emitted>>
    /\ StampFrame

\* all_products.append / self.products.append.  The comprehensive driver
\* appends every draft; the others append a product with a name (named), which
\* only a fetched page can give to their drafts.
AppendEntry(named) ==
    /\ cpc = "append"
    /\ emitted' = IF cvariant = "comprehensive" \/ (named /\ drafts[entry_idx].fetched_at > 0)
                  THEN Append(emitted, drafts[entry_idx]) ELSE emitted
    /\ clock' = clock + 1
    /\ NextEntry("fetch")
    /\ UNCHANGED <<cvariant, entry_count, drafts>>
    /\ StampFrame

StampNext ==
    \/ CreateListingDraft
    \/ \E soup \in {"content", "None"}, ticks \in 1..MaxFetchTicks : DetailFetch(soup, ticks)
    \/ Enrich
    \/ \E named \in BOOLEAN : AppendEntry(named)

\* C19: the capture time of an emitted entry whose detail page was fetched
\* is read after that fetch returned and after the enrichment ended, not when
\* the draft was created.
C19_StampAfterEnrichment ==
    \A i \in DOMAIN emitted :
      emitted[i].fetched_at > 0 =>
        /\ emitted[i].scraped_timestamp > emitted[i].fetched_at
        /\ emitted[i].scraped_timestamp >= emitted[i].enriched_at

(***************************************************************************)
(* Strategy chains: the storage_patterns loop of                           *)
(* extract_perfect_specifications and the name_selectors loop of the       *)
(* enhanced extract_product_from_listing.                                  *)
(***************************************************************************)
ChainVariants == {"storage", "name"}

\* len(storage_patterns)
StoragePatterns == 4

\* len(name_selectors)
NameSelectors == 6

Strategies(v) == IF v = "storage" THEN StoragePatterns ELSE NameSelectors

\* What a strategy finds: nothing, or a match / an element with its text and,
\* for an element, its title attribute ('' when it has none).
NoCand == [present |-> FALSE, title |-> EmptyText, text |-> EmptyText]

Cand(title, text) == [present |-> TRUE, title |-> title, text |-> text]

ChainCands(v) ==
    IF v = "storage"
    THEN {NoCand,
          Cand(EmptyText, Text("Store cold", 10, 0, 0, 0)),
          Cand(EmptyText, Text("Store at -18 C or below", 23, 0, 0, 0)),
          Cand(EmptyText, Text("Keep frozen at all times", 24, 0, 0, 1))}
    ELSE {NoCand,
          Cand(EmptyText, Text("New", 3, 0, 0, 2)),
          Cand(EmptyText, Text("Walnut Brownie", 14, 0, 1, 0)),
          Cand(Text("Ghee 1 L", 8, 0, 0, 0), Text("Ghee", 4, 0, 0, 0))}

\* The value a strategy gives: clean_text(match.group(1)), or
\* `name_elem.get('title') or self.clean_text(name_elem.get_text())`
StrategyValue(v, c) ==
    IF v = "storage" THEN PerfectCleanText(c.text)
    ELSE IF TextLen(c.title) > 0 THEN c.title
    ELSE CleanText(c.text)

\* The validity predicate: `len(storage_text) > 10`, or
\* `text and len(text.strip()) > 3`
Passes(v, val) ==
    IF v = "storage" THEN TextLen(val) > 10
    ELSE TextLen(val) > 0 /\ TextLen(Strip(val)) > 3

\* Not the code's: a `break` after every match, kept to show that the claim
\* about the chain depends on the place of the `break`.
StopsOnMatch(found, passes) == found

\* The `break` stands inside the test of the predicate.
StopsChain(found, passes) == found /\ passes

ChainInit ==
    /\ chain_variant \in ChainVariants
    /\ chain_cands \in [1..Strategies(chain_variant) -> ChainCands(chain_variant)]
    /\ chain_idx = 1
    /\ chain_value = EmptyText
    /\ chain_evaluated = <<>>
    /\ chain_pc = "loop"

\* One iteration of the loop over the strategies, or its end.
ChainStep ==
    LET c   == chain_cands[chain_idx]
        val == StrategyValue(chain_variant, c)
    IN
    /\ chain_pc = "loop"
    /\ IF chain_idx > Len(chain_cands)
       THEN /\ chain_pc' = "done"
            /\ UNCHANGED <<chain_idx, chain_value, chain_evaluated>>
       ELSE /\ chain_evaluated' = Append(chain_evaluated, chain_idx)
            /\ chain_value' = IF c.present /\ Passes(chain_variant, val)
                              THEN val ELSE chain_value
            /\ IF StopsChain(c.present, c.present /\ Passes(chain_variant, val))
               THEN chain_pc' = "done" /\ UNCHANGED chain_idx
               ELSE chain_idx' = chain_idx + 1 /\ UNCHANGED chain_pc
    /\ UNCHANGED <<chain_variant, chain_cands>>
    /\ ChainFrame

ChainNext == ChainStep

\* The strategies whose result passes the predicate.
Winners ==
    { k \in DOMAIN chain_cands :
        chain_cands[k].present
          /\ Passes(chain_variant, StrategyValue(chain_variant, chain_cands[k])) }

Lowest(S) == CHOOSE k \in S : \A j \in S : k <= j

\* C22: the field is the value of the lowest-index strategy whose result
\* passes the predicate; a strategy that matches and fails the predicate does
\* not stop the chain; the strategies after the winner are not evaluated and
\* never overwrite it; when none passes the field stays unset.
C22_StrategyChain ==
    /\ chain_evaluated = [i \in 1..Len(chain_evaluated) |-> i]
    /\ chain_value # EmptyText => chain_pc = "done"
    /\ chain_pc = "done" =>
         IF Winners = {}
         THEN /\ chain_value = EmptyText
              /\ Len(chain_evaluated) = Len(chain_cands)
         ELSE /\ chain_value = StrategyValue(chain_variant, chain_cands[Lowest(Winners)])
              /\ Len(chain_evaluated) = Lowest(Winners)

\* The first strategy matched and failed the predicate, the second won, and a
\* third that would have given another value was not evaluated.
C22_Witness ==
    /\ chain_pc = "done"
    /\ chain_cands[1].present
    /\ 1 \notin Winners
    /\ Lowest(Winners) = 2
    /\ 3 \in Winners
    /\ StrategyValue(chain_variant, chain_cands[3]) # chain_value
    /\ chain_evaluated = <<1, 2>>

(***************************************************************************)
(* Unit size: extract_unit_size and its two calls (comprehensive), and     *)
(* step 6 of extract_perfect_product_details.                              *)
(***************************************************************************)
UnitVariants == {"comprehensive", "perfect"}

\* The pieces a text is made of: a word, or a quantity written in one of the
\* ways the patterns tell apart.
UnitTokens == {"Brownie", "80 gm", "1 kg", "80 g/pc", "250 gram"}

MaxUnitTokens == 2

UnitTexts == UNION { [1..n -> UnitTokens] : n \in 0..MaxUnitTokens }

\* size_patterns (comprehensive) and unit_patterns (PERFECT), by position:
\* group(1) of the pattern's match inside one piece, "" when it has none.
MatchInToken(v, k, tok) ==
    IF v = "comprehensive"
    THEN CASE k = 1 -> IF tok \in {"80 gm", "1 kg"} THEN tok ELSE ""
           [] k = 2 -> IF tok = "250 gram" THEN tok ELSE ""
           [] k = 3 -> ""
           [] k = 4 -> IF tok = "1 kg" THEN tok
                       ELSE IF tok = "80 g/pc" THEN "80 g" ELSE ""
    ELSE CASE k = 1 -> IF tok \in {"80 gm", "1 kg"} THEN tok ELSE ""
           [] k = 2 -> ""
           [] k = 3 -> IF tok = "80 g/pc" THEN tok ELSE ""

\* len(size_patterns), len(unit_patterns)
SizePatterns == 4

UnitPatterns == 3

PatternCount(v) == IF v = "comprehensive" THEN SizePatterns ELSE UnitPatterns

\* re.search(pattern, text): the leftmost match, "" for None
SearchUnit(v, k, text) ==
    LET hits == { i \in DOMAIN text : MatchInToken(v, k, text[i]) # "" }
    IN  IF hits = {} THEN ""
        ELSE MatchInToken(v, k, text[CHOOSE i \in hits : \A j \in hits : i <= j])

\* `for pattern in size_patterns: match = re.search(...); if match: return`
RECURSIVE FirstPatternMatch(_, _, _)
FirstPatternMatch(v, k, text) ==
    IF k > PatternCount(v) THEN ""
    ELSE IF SearchUnit(v, k, text) # "" THEN SearchUnit(v, k, text)
    ELSE FirstPatternMatch(v, k + 1, text)

extract_unit_size(v, text) == FirstPatternMatch(v, 1, text)

UnitInit ==
    /\ uvariant \in UnitVariants
    /\ uname \in UnitTexts \ {<<>>}
    /\ utext \in UnitTexts
    /\ usize = ""
    /\ upc = IF uvariant = "comprehensive" THEN "listing" ELSE "detail"

\* extract_product_from_listing: `product.unit_size = self.extract_unit_size(product_name)`
UnitFromName ==
    /\ uvariant = "comprehensive"
    /\ upc = "listing"
    /\ usize' = extract_unit_size(uvariant, uname)
    /\ upc' = "detail"
    /\ UNCHANGED <<uvariant, uname, utext>>
    /\ UnitFrame

\* scrape_product_details: `if not product.unit_size: ... extract_unit_size(page_text)`
UnitFromPage ==
    /\ uvariant = "comprehensive"
    /\ upc = "detail"
    /\ usize' = IF usize = "" THEN extract_unit_size(uvariant, utext) ELSE usize
    /\ upc' = "done"
    /\ UNCHANGED <<uvariant, uname, utext>>
    /\ UnitFrame

\* PERFECT step 6: every pattern in turn over "<name> <description>"
UnitFromNameAndDescription ==
    LET text_to_search == uname \o utext
        found == extract_unit_size(uvariant, text_to_search)
    IN
    /\ uvariant = "perfect"
    /\ upc = "detail"
    /\ usize' = IF found # "" THEN found ELSE usize
    /\ upc' = "done"
    /\ UNCHANGED <<uvariant, uname, utext>>
    /\ UnitFrame

UnitNext == UnitFromName \/ UnitFromPage \/ UnitFromNameAndDescription

\* C24: the unit size of an entry is the match of the first pattern, in list
\* order, that matches the product name; the rest of the page is searched only
\* when no pattern matches the name, so a unit size found in the name is never
\* replaced by one found elsewhere.
C24_UnitFromNameFirst ==
    upc = "done" =>
      IF extract_unit_size(uvariant, uname) # ""
      THEN usize = extract_unit_size(uvariant, uname)
      ELSE usize = extract_unit_size(uvariant, utext)

(***************************************************************************)
(* Quoting: clean_text, then the row writer of save_to_csv.                *)
(***************************************************************************)
MaxQuotes == 2

MaxRuns == 2

MaxPad == 2

MaxChars == 3

RawTexts ==
    { Text(id, c, q, r, w) :
        id \in {"Brownie", "Ghee"}, c \in 1..MaxChars, q \in 0..MaxQuotes,
        r \in 0..MaxRuns, w \in 0..MaxPad }

NoCell == [quoted |-> FALSE, text |-> EmptyText]

\* writer.writerow with the default dialect: a field that holds a quote
\* character is written between quotes with each of its quotes doubled; any
\* other field is written as it is.  text is what stands in the file, without
\* the enclosing quotes.
WriteCell(t) ==
    IF t.quotes > 0
    THEN [quoted |-> TRUE, text |-> [t EXCEPT !.quotes = 2 * t.quotes]]
    ELSE [quoted |-> FALSE, text |-> t]

QuoteInit ==
    /\ qraw \in RawTexts
    /\ qfield = EmptyText
    /\ qcell = NoCell
    /\ qpc = "extract"

\* An extraction step stores the text through clean_text.
CleanField ==
    /\ qpc = "extract"
    /\ qfield' = CleanText(qraw)
    /\ qpc' = "save"
    /\ UNCHANGED <<qraw, qcell>>
    /\ QuoteFrame

\* save_to_csv writes the entry's row.
WriteRow ==
    /\ qpc = "save"
    /\ qcell' = WriteCell(qfield)
    /\ qpc' = "written"
    /\ UNCHANGED <<qraw, qfield>>
    /\ QuoteFrame

QuoteNext == CleanField \/ WriteRow

\* What a CSV parser reads back from a cell: inside a quoted cell every pair
\* of quotes is one quote character.
ParsedCell(c) ==
    IF c.quoted THEN [c.text EXCEPT !.quotes = c.text.quotes \div 2] ELSE c.text

\* C25: a quote character of an extracted text is escaped in the written row
\* by doubling it exactly once: parsing the written cell gives the extracted
\* text (whitespace normalised) with each of its quote characters once.
C25_QuoteRoundTrip ==
    qpc = "written" =>
      /\ qcell.text.quotes = 2 * qraw.quotes
      /\ ParsedCell(qcell) = Text(qraw.id, qraw.chars, qraw.quotes, 0, 0)

(***************************************************************************)
(* The listing pages: scrape_all_products and scrape_category_page of the  *)
(* enhanced script and of scripts/hyperpure_scraper.py.  The detail pages  *)
(* of the products of a page are left to the other components: a page is   *)
(* known here by what it makes the loop do.                                *)
(***************************************************************************)
PagesVariants == {"enhanced", "base"}

\* `max_pages = 20`
EnhancedMaxPages == 20

\* `if page_num > 50:`
BaseMaxPages == 50

MaxPages(v) == IF v = "enhanced" THEN EnhancedMaxPages ELSE BaseMaxPages

\* main_url
MainUrl == "Menu-Addons"

CategoryLink(name, url) == [name |-> name, url |-> url]

\* What get_category_links can return: the pairs (text, url) are distinct, the
\* URLs need not be.  A link of the seed page may lead to the seed page; the
\* base script leaves out the links whose href holds 'Menu-Addons'.
CategoryLinkLists(v) ==
    { <<>>,
      <<CategoryLink("Dairy", "Dairy")>>,
      <<CategoryLink("Dairy", "Dairy"), CategoryLink("Milk", "Dairy")>> }
    \cup IF v = "enhanced" THEN {<<CategoryLink("Menu Add-ons", MainUrl)>>} ELSE {}

\* paginated_url
PageUrl(url, n) == [url |-> url, page |-> n]

CategoryUrl == IF pcat = 0 THEN MainUrl ELSE plinks[pcat].url

\* What a listing page gives the loop: the fetch fails; no product element;
\* elements of which none yields a product, with or without a next-page link;
\* products without a next-page link; products and a next-page link.
PageOutcomes ==
    {"fetch_fails", "no_elements", "no_products", "no_products_last", "last_page", "more"}

\* Not the code's: a loop that goes on after a page without a next-page link,
\* kept to show that the claim about the end of the loop depends on that test.
ContinuesWithoutNext(v, o) == o \in {"more", "last_page"}

\* The loop goes on to the next page: enhanced `if not has_next or
\* len(page_products) == 0: break`, base `if not next_page: break`.
Continues(v, o) ==
    IF v = "enhanced" THEN o = "more" ELSE o \in {"more", "no_products"}

\* The fetch log after a successful fetch of u.
Refetched(u) == IF u \in pfetched THEN prefetched \cup {u} ELSE prefetched

PagesInit ==
    /\ gvariant \in PagesVariants
    /\ plinks \in CategoryLinkLists(gvariant)
    /\ gpc = "start"
    /\ pcat = 0
    /\ page_num = 1
    /\ plast = "none"
    /\ pcount = 0
    /\ pfetched = {}
    /\ prefetched = {}

\* scrape_all_products up to its first call of scrape_category_page.
StartScrape(ok) ==
    /\ gpc = "start"
    /\ IF ~ok
       THEN /\ gpc' = "returned"
            /\ UNCHANGED <<pcat, pfetched, prefetched>>
       ELSE /\ pfetched' = pfetched \cup {PageUrl(MainUrl, 1)}
            /\ prefetched' = Refetched(PageUrl(MainUrl, 1))
            /\ gpc' = "page"
            /\ pcat' = IF gvariant = "enhanced" \/ plinks = <<>> THEN 0 ELSE 1
    /\ UNCHANGED <<gvariant, plinks, page_num, plast, pcount>>
    /\ PagesFrame

\* One iteration of the loop of scrape_category_page.
ScrapePage(o) ==
    LET u == PageUrl(CategoryUrl, page_num) IN
    /\ gpc = "page"
    /\ pcount' = pcount + 1
    /\ plast' = o
    /\ pfetched' = IF o = "fetch_fails" THEN pfetched ELSE pfetched \cup {u}
    /\ prefetched' = IF o = "fetch_fails" THEN prefetched ELSE Refetched(u)
    /\ IF Continues(gvariant, o)
       THEN /\ page_num' = page_num + 1
            /\ gpc' = IF page_num + 1 > MaxPages(gvariant) THEN "call_done" ELSE "page"
       ELSE /\ gpc' = "call_done"
            /\ UNCHANGED page_num
    /\ UNCHANGED <<gvariant, plinks, pcat>>
    /\ PagesFrame

\* scrape_category_page returned: the driver extends self.products and goes
\* to the next category link, or returns.
NextCategoryLink ==
    /\ gpc = "call_done"
    /\ IF pcat < Len(plinks) /\ (gvariant = "enhanced" \/ pcat > 0)
       THEN /\ pcat' = pcat + 1
            /\ gpc' = "page"
            /\ page_num' = 1
            /\ plast' = "none"
            /\ pcount' = 0
       ELSE /\ gpc' = "returned"
            /\ UNCHANGED <<pcat, page_num, plast, pcount>>
    /\ UNCHANGED <<gvariant, plinks, pfetched, prefetched>>
    /\ PagesFrame

PagesNext ==
    \/ \E ok \in BOOLEAN : StartScrape(ok)
    \/ \E o \in PageOutcomes : ScrapePage(o)
    \/ NextCategoryLink

\* C27: across one run no absolute URL is fetched successfully more than once,
\* the seed page, the category pages and the listing pages included.
C27_NoUrlFetchedTwice == prefetched = {}

\* The outcomes at which the loop has to stop.
StopsLoop(o) == o \in {"fetch_fails", "no_elements", "no_products_last", "last_page"}

\* C29: scrape_category_page terminates whatever the pages give, a site whose
\* every page has products and a next-page link included: a call asks for at
\* most 20 listing pages (enhanced; 50 in the base script), and the loop does
\* not go on after a page whose fetch fails, that has no product element or
\* that has no next-page link.
C29_PaginationTerminates ==
    /\ [](pcount <= MaxPages(gvariant))
    /\ []((gpc = "page" /\ pcount > 0) => ~StopsLoop(plast))
    /\ \A k \in 0..2 : (gpc = "page" /\ pcat = k) ~> ~(gpc = "page" /\ pcat = k)

\* A call of the enhanced script that asked for its twentieth page on a site
\* whose every page has products and a next-page link, and returned.
C29_Witness ==
    /\ gvariant = "enhanced"
    /\ gpc = "call_done"
    /\ pcount = EnhancedMaxPages
    /\ plast = "more"

(***************************************************************************)
(* The sink: save_to_csv (comprehensive) and save_perfect_csv (PERFECT).   *)
(***************************************************************************)
MaxSaves == 3

MaxSinkProducts == 2

SinkVariants == {"comprehensive", "perfect"}

\* fieldnames of the two save methods
Fieldnames(v) ==
    IF v = "comprehensive"
    THEN <<"product_name", "category", "subcategory", "price_current", "price_original",
           "discount_percentage", "product_description", "product_image_url",
           "product_page_url", "availability_status", "brand_name", "unit_size",
           "packaging_type", "nutritional_info", "ingredients", "product_id", "sku_code",
           "rating", "review_count", "tags", "scraped_timestamp">>
    ELSE <<"product_name", "category", "subcategory", "price_current", "price_original",
           "discount_percentage", "product_description", "product_image_url",
           "product_page_url", "availability_status", "brand_name", "unit_size",
           "packaging_type", "no_of_pieces", "fillet_size", "meat_content",
           "weight_variation", "shelf_life", "storage_instructions",
           "thawing_instructions", "cooking_instructions", "serving_suggestions",
           "key_features", "product_highlights", "premium_ingredients",
           "health_conscious_info", "nutritional_info", "ingredients", "allergen_info",
           "product_id", "sku_code", "rating", "review_count", "tags",
           "scraped_timestamp">>

\* The default file name of each method, and one given by the caller.
SinkFilenames(v) ==
    { IF v = "comprehensive" THEN "hyperpure_products_comprehensive.csv"
                             ELSE "hyperpure_PERFECT_products.csv",
      "out.csv" }

AllSinkFilenames == UNION { SinkFilenames(v) : v \in SinkVariants }

NoFile == [exists |-> FALSE, header |-> <<>>, rows |-> <<>>]

File(header, rows) == [exists |-> TRUE, header |-> header, rows |-> rows]

\* a file left by an earlier run
OldFile == File(<<"product_name">>, <<"Paneer 1 kg">>)

\* The names of the entries of self.products in the model; a row of the file
\* is the entry's name.
SinkNames == {"Amul Butter 500 g", "Cheese Slices 200 g"}

\* What open(filename, 'w') and the writer can do: succeed, fail to open, or
\* fail while writing (the exception is caught and logged by the method).
IoOutcomes == {"ok", "open_fails", "write_fails"}

\* Not the code's: the method without its `if not self.products: return`, kept
\* to show that the claim about an empty list depends on that guard.
SavedFilesNoGuard(v, ps, fs, filename, io) ==
    IF io = "open_fails"
    THEN {fs}
    ELSE IF io = "write_fails"
    THEN { [fs EXCEPT ![filename] = File(Fieldnames(v), SubSeq(ps, 1, k))] :
             k \in 0..Len(ps) }
    ELSE {[fs EXCEPT ![filename] = File(Fieldnames(v), ps)]}

\* The file systems the method can leave.  `if not self.products: return`
\* comes before open(); open(filename, 'w') truncates; an exception while
\* writing leaves the header and the rows written so far.
SavedFiles(v, ps, fs, filename, io) ==
    IF ps = <<>>
    THEN {fs}
    ELSE IF io = "open_fails"
    THEN {fs}
    ELSE IF io = "write_fails"
    THEN { [fs EXCEPT ![filename] = File(Fieldnames(v), SubSeq(ps, 1, k))] :
             k \in 0..(Len(ps) - 1) }
    ELSE {[fs EXCEPT ![filename] = File(Fieldnames(v), ps)]}

\* The record the method logs.
SaveLogged(ps, io) ==
    IF ps = <<>> THEN [level |-> "error", message |-> "No products to save"]
    ELSE IF io = "ok" THEN [level |-> "info", message |-> "saved"]
    ELSE [level |-> "error", message |-> "Error saving"]

SinkInit ==
    /\ sink_variant \in SinkVariants
    /\ sink_products = <<>>
    /\ files \in [AllSinkFilenames -> {NoFile, OldFile}]
    /\ sink_log = <<>>
    /\ saves = <<>>

\* self.products.append(...) by the driver between two saves.
AppendProduct(n) ==
    /\ Len(sink_products) < MaxSinkProducts
    /\ Len(saves) < MaxSaves
    /\ sink_products' = Append(sink_products, n)
    /\ UNCHANGED <<sink_variant, files, sink_log, saves>>
    /\ SinkFrame

\* One call of save_to_csv / save_perfect_csv.  saves records the list the
\* call found, the file name and whether an exception left the method.
SaveToCsvCall(filename, io) ==
    /\ Len(saves) < MaxSaves
    /\ filename \in SinkFilenames(sink_variant)
    /\ files' \in SavedFiles(sink_variant, sink_products, files, filename, io)
    /\ sink_log' = Append(sink_log, SaveLogged(sink_products, io))
    /\ saves' = Append(saves, [products |-> sink_products, filename |-> filename,
                               raised |-> FALSE])
    /\ UNCHANGED <<sink_variant, sink_products>>
    /\ SinkFrame

SinkNext ==
    \/ \E n \in SinkNames : AppendProduct(n)
    \/ \E filename \in AllSinkFilenames, io \in IoOutcomes :
         SaveToCsvCall(filename, io)

\* C14: a save with zero entries is a no-op, however often it is repeated: the
\* call returns without raising, leaves every file as it was (none created,
\* none overwritten, no row written) and only logs one record.
C14_EmptySaveIsNoOp ==
    [][(saves' # saves /\ sink_products = <<>>) =>
         /\ ~Last(saves').raised
         /\ files' = files
         /\ sink_products' = sink_products
         /\ sink_log' = Append(sink_log, [level |-> "error",
                                          message |-> "No products to save"])]_vars

\* Three saves of an empty list, over a file system that holds an old file and
\* lacks another.
C14_Witness ==
    /\ Len(saves) = MaxSaves
    /\ \A k \in DOMAIN saves : saves[k].products = <<>>
    /\ \E k \in DOMAIN saves : files[saves[k].filename] = NoFile
    /\ \E k \in DOMAIN saves : files[saves[k].filename] = OldFile

(***************************************************************************)
(* The limit: main of scripts/hyperpure_detailed_scraper.py and of         *)
(* scripts/hyperpure_PERFECT_scraper.py after the scrape returned, and the *)
(* save method they call.                                                  *)
(***************************************************************************)
LimitVariants == {"detailed", "perfect"}

MaxLimit == 2

MaxScraped == 3

\* The lists a scrape can return: entries are known by their names.
ScrapedLists == UNION { [1..n -> {"Amul Butter 500 g", "Cheese Slices 200 g"}] : n \in 0..MaxScraped }

\* `products[:args.limit]`
FirstN(list, n) == SubSeq(list, 1, IF Len(list) < n THEN Len(list) ELSE n)

\* `if args.limit and len(products) > args.limit:`
LimitApplies(n, list) == n # 0 /\ Len(list) > n

LimitInit ==
    /\ lvariant \in LimitVariants
    /\ limit \in 0..MaxLimit
    /\ self_products \in ScrapedLists
    /\ local_products = self_products
    /\ lscraped = self_products
    /\ lfile = NoFile
    /\ lpc = "scraped"

\* main: the limit.  Both scripts cut the local list; PERFECT also assigns
\* it to scraper.products.
ApplyLimit ==
    /\ lpc = "scraped"
    /\ IF LimitApplies(limit, local_products)
       THEN /\ local_products' = FirstN(local_products, limit)
            /\ self_products' = IF lvariant = "perfect"
                                THEN FirstN(local_products, limit)
                                ELSE self_products
       ELSE UNCHANGED <<local_products, self_products>>
    /\ lpc' = "limited"
    /\ UNCHANGED <<lvariant, limit, lfile, lscraped>>
    /\ LimitFrame

\* main: `if products: scraper.save_to_csv(filename)`; the method writes
\* self.products when it is not empty, and logs an exception of the writing.
SaveLimited(io) ==
    /\ lpc = "limited"
    /\ lfile' = IF local_products # <<>> /\ self_products # <<>> /\ io = "ok"
                THEN File(Fieldnames("perfect"), self_products)
                ELSE lfile
    /\ lpc' = "done"
    /\ UNCHANGED <<lvariant, limit, self_products, local_products, lscraped>>
    /\ LimitFrame

LimitNext ==
    \/ ApplyLimit
    \/ \E io \in {"ok", "open_fails"} : SaveLimited(io)

\* C30: when a limit N is given and the run scraped more than N entries, the
\* file that is written holds exactly the first N scraped entries: the list
\* written is the limited list, not the full accumulated list.
C30_LimitedListIsWritten ==
    (lpc = "done" /\ lfile.exists /\ LimitApplies(limit, lscraped)) =>
      lfile.rows = FirstN(lscraped, limit)

(***************************************************************************)
(* Specifications.                                                         *)
(***************************************************************************)
FetchIdle ==
    /\ variant = "requests"
    /\ max_retries = 0
    /\ attempt = 0
    /\ fpc = "idle"
    /\ outcomes = <<>>
    /\ sleeps = <<>>
    /\ fresult = Pending
    /\ escaped = "none"

PriceIdle ==
    /\ pvariant = "text"
    /\ price_text = <<>>
    /\ ppc = "idle"
    /\ price = [current |-> Unset, original |-> Unset, discount |-> Unset]

PackagingIdle ==
    /\ name_keywords = {}
    /\ category_name = ""
    /\ kpc = "idle"
    /\ packaging_type = ""
    /\ packaging_by = "none"

DetailIdle ==
    /\ dvariant = "comprehensive"
    /\ scraped_urls = {}
    /\ listing = NewProduct
    /\ product = NewProduct
    /\ page = BlankPage
    /\ call_log = <<>>

PerfectIdle ==
    /\ product_urls = <<>>
    /\ next_url = 1
    /\ perfect_products = <<>>
    /\ perfect_log = <<>>

RunIdle ==
    /\ rpc = "idle"
    /\ category_idx = 1
    /\ all_products = <<>>
    /\ category_products = <<>>
    /\ detail_idx = 1
    /\ products = <<>>
    /\ run_scraped_urls = {}
    /\ normal_csv = NoCsv
    /\ partial_csv = NoCsv
    /\ interrupted = FALSE
    /\ assembled = <<>>
    /\ fetch_log = <<>>

SinkIdle ==
    /\ sink_variant = "comprehensive"
    /\ sink_products = <<>>
    /\ files = [f \in AllSinkFilenames |-> NoFile]
    /\ sink_log = <<>>
    /\ saves = <<>>

EntryIdle ==
    /\ evariant = "comprehensive"
    /\ estage = "idle"
    /\ eprice = NoPrice
    /\ product_element = NoProductElement
    /\ selector_idx = 1
    /\ listing_text = <<>>
    /\ detail_text = <<>>

TagsIdle ==
    /\ tvariant = "comprehensive"
    /\ badges = <<>>
    /\ page_keywords = {}
    /\ tag_packaging = ""
    /\ tag_list = <<>>
    /\ tpc = "idle"

StampIdle ==
    /\ cvariant = "comprehensive"
    /\ entry_count = 0
    /\ clock = 0
    /\ cpc = "idle"
    /\ entry_idx = 1
    /\ drafts = <<>>
    /\ emitted = <<>>

ChainIdle ==
    /\ chain_variant = "storage"
    /\ chain_cands = <<>>
    /\ chain_idx = 1
    /\ chain_value = EmptyText
    /\ chain_evaluated = <<>>
    /\ chain_pc = "idle"

UnitIdle ==
    /\ uvariant = "comprehensive"
    /\ uname = <<>>
    /\ utext = <<>>
    /\ usize = ""
    /\ upc = "idle"

QuoteIdle ==
    /\ qraw = EmptyText
    /\ qfield = EmptyText
    /\ qcell = [quoted |-> FALSE, text |-> EmptyText]
    /\ qpc = "idle"

PagesIdle ==
    /\ gvariant = "enhanced"
    /\ plinks = <<>>
    /\ gpc = "idle"
    /\ pcat = 0
    /\ page_num = 1
    /\ plast = "none"
    /\ pcount = 0
    /\ pfetched = {}
    /\ prefetched = {}

LimitIdle ==
    /\ lvariant = "detailed"
    /\ limit = 0
    /\ self_products = <<>>
    /\ local_products = <<>>
    /\ lfile = [exists |-> FALSE, header |-> <<>>, rows |-> <<>>]
    /\ lscraped = <<>>
    /\ lpc = "idle"

InitFetch == FetchInit /\ PriceIdle /\ PackagingIdle /\ DetailIdle /\ PerfectIdle /\ RunIdle /\ SinkIdle /\ EntryIdle /\ TagsIdle /\ StampIdle /\ ChainIdle /\ UnitIdle /\ QuoteIdle /\ PagesIdle /\ LimitIdle

SpecFetch == InitFetch /\ [][FetchNext]_vars

InitPrice == PriceInit /\ FetchIdle /\ PackagingIdle /\ DetailIdle /\ PerfectIdle /\ RunIdle /\ SinkIdle /\ EntryIdle /\ TagsIdle /\ StampIdle /\ ChainIdle /\ UnitIdle /\ QuoteIdle /\ PagesIdle /\ LimitIdle

SpecPrice == InitPrice /\ [][PriceNext]_vars

InitPackaging == PackagingInit /\ FetchIdle /\ PriceIdle /\ DetailIdle /\ PerfectIdle /\ RunIdle /\ SinkIdle /\ EntryIdle /\ TagsIdle /\ StampIdle /\ ChainIdle /\ UnitIdle /\ QuoteIdle /\ PagesIdle /\ LimitIdle

SpecPackaging == InitPackaging /\ [][PackagingNext]_vars

InitDetail == DetailInit /\ FetchIdle /\ PriceIdle /\ PackagingIdle /\ PerfectIdle /\ RunIdle /\ SinkIdle /\ EntryIdle /\ TagsIdle /\ StampIdle /\ ChainIdle /\ UnitIdle /\ QuoteIdle /\ PagesIdle /\ LimitIdle

SpecDetail == InitDetail /\ [][DetailNext]_vars

SpecFrontier == InitDetail /\ [][FrontierNext]_vars

InitPerfect == PerfectInit /\ FetchIdle /\ PriceIdle /\ PackagingIdle /\ DetailIdle /\ RunIdle /\ SinkIdle /\ EntryIdle /\ TagsIdle /\ StampIdle /\ ChainIdle /\ UnitIdle /\ QuoteIdle /\ PagesIdle /\ LimitIdle

SpecPerfect == InitPerfect /\ [][PerfectNext]_vars

InitRun == RunInit /\ FetchIdle /\ PriceIdle /\ PackagingIdle /\ DetailIdle /\ PerfectIdle /\ SinkIdle /\ EntryIdle /\ TagsIdle /\ StampIdle /\ ChainIdle /\ UnitIdle /\ QuoteIdle /\ PagesIdle /\ LimitIdle

SpecRun == InitRun /\ [][RunNext]_vars

\* The run under the interpreter's scheduling: RunProgram is weakly fair, the
\* Ctrl-C is not.
SpecRunFair == InitRun /\ [][RunNext]_vars /\ WF_vars(RunProgram)

InitSink == SinkInit /\ FetchIdle /\ PriceIdle /\ PackagingIdle /\ DetailIdle /\ PerfectIdle /\ RunIdle /\ EntryIdle /\ TagsIdle /\ StampIdle /\ ChainIdle /\ UnitIdle /\ QuoteIdle /\ PagesIdle /\ LimitIdle

SpecSink == InitSink /\ [][SinkNext]_vars

InitEntry == EntryInit /\ FetchIdle /\ PriceIdle /\ PackagingIdle /\ DetailIdle /\ PerfectIdle /\ RunIdle /\ SinkIdle /\ TagsIdle /\ StampIdle /\ ChainIdle /\ UnitIdle /\ QuoteIdle /\ PagesIdle /\ LimitIdle

SpecEntry == InitEntry /\ [][EntryNext]_vars

InitTags == TagsInit /\ FetchIdle /\ PriceIdle /\ PackagingIdle /\ DetailIdle /\ PerfectIdle /\ RunIdle /\ SinkIdle /\ EntryIdle /\ StampIdle /\ ChainIdle /\ UnitIdle /\ QuoteIdle /\ PagesIdle /\ LimitIdle

SpecTags == InitTags /\ [][TagsNext]_vars

InitStamp == StampInit /\ FetchIdle /\ PriceIdle /\ PackagingIdle /\ DetailIdle /\ PerfectIdle /\ RunIdle /\ SinkIdle /\ EntryIdle /\ TagsIdle /\ ChainIdle /\ UnitIdle /\ QuoteIdle /\ PagesIdle /\ LimitIdle

SpecStamp == InitStamp /\ [][StampNext]_vars

InitChain == ChainInit /\ FetchIdle /\ PriceIdle /\ PackagingIdle /\ DetailIdle /\ PerfectIdle /\ RunIdle /\ SinkIdle /\ EntryIdle /\ TagsIdle /\ StampIdle /\ UnitIdle /\ QuoteIdle /\ PagesIdle /\ LimitIdle

SpecChain == InitChain /\ [][ChainNext]_vars

InitUnit == UnitInit /\ FetchIdle /\ PriceIdle /\ PackagingIdle /\ DetailIdle /\ PerfectIdle /\ RunIdle /\ SinkIdle /\ EntryIdle /\ TagsIdle /\ StampIdle /\ ChainIdle /\ QuoteIdle /\ PagesIdle /\ LimitIdle

SpecUnit == InitUnit /\ [][UnitNext]_vars

InitQuote == QuoteInit /\ FetchIdle /\ PriceIdle /\ PackagingIdle /\ DetailIdle /\ PerfectIdle /\ RunIdle /\ SinkIdle /\ EntryIdle /\ TagsIdle /\ StampIdle /\ ChainIdle /\ UnitIdle /\ PagesIdle /\ LimitIdle

SpecQuote == InitQuote /\ [][QuoteNext]_vars

InitPages == PagesInit /\ FetchIdle /\ PriceIdle /\ PackagingIdle /\ DetailIdle /\ PerfectIdle /\ RunIdle /\ SinkIdle /\ EntryIdle /\ TagsIdle /\ StampIdle /\ ChainIdle /\ UnitIdle /\ QuoteIdle /\ LimitIdle

SpecPages == InitPages /\ [][PagesNext]_vars

\* The listing pages under the interpreter's scheduling: the driver and the
\* loop are sequential code whose every fetch returns, so a step that can be
\* taken is taken.
SpecPagesFair == InitPages /\ [][PagesNext]_vars /\ WF_vars(PagesNext)

InitLimit == LimitInit /\ FetchIdle /\ PriceIdle /\ PackagingIdle /\ DetailIdle /\ PerfectIdle /\ RunIdle /\ SinkIdle /\ EntryIdle /\ TagsIdle /\ StampIdle /\ ChainIdle /\ UnitIdle /\ QuoteIdle /\ PagesIdle

SpecLimit == InitLimit /\ [][LimitNext]_vars

====
